---- MODULE Spec2Model ----
(***************************************************************************)
(* Model of the work-centric coordination engine of src/src/App.jsx:       *)
(* RoutingService, WorkCentricHospitalService, OptimizedNetworkPathfinder  *)
(* and WorkCentricLocationService (the shared locationService instance).   *)
(*                                                                         *)
(* Units.  Coordinates are offsets, in hundredths of a degree, from the    *)
(* default map centre (22.5958, 88.2636) of App.jsx:707.  Distances are    *)
(* integers in millimetres (the code's kilometres times 10^6), durations   *)
(* in millionths of a minute, so that 2 km is 2000000 and the code's       *)
(* "duration = distance * 2" keeps its factor.                             *)
(*                                                                         *)
(* An absent value (null / undefined) is the empty sequence <<>>, a        *)
(* present one is a non-empty sequence: a position is <<lat, lon>>, a      *)
(* timestamp <<t>>, a route <<r>>.                                         *)
(***************************************************************************)
EXTENDS Integers, Sequences, FiniteSets, TLC

VARIABLES
    devices,                  \* this.devices: the Map, as the sequence of its values in insertion order
    hospitals,                \* this.hospitals
    hospitalRoutes,           \* this.hospitalRoutes
    autoSelectShortestRoute,  \* this.autoSelectShortestRoute (undefined until first set)
    subscribers,              \* this.subscribers
    networkTopology,          \* this.networkTopology
    connections,              \* this.connections
    emergencyMode,            \* this.workContext.emergencyMode
    now,                      \* the wall clock read by new Date(), in ms
    runs,                     \* updateHospitals calls suspended at an await, oldest first
    timers,                   \* pending setTimeout(notifySubscribers, 100) callbacks
    published,                \* the snapshots notifySubscribers built during the last step
    notified,                 \* the callbacks invoked during the last step
    lastOp,                   \* the operation, handler or continuation that ran last
    started,                  \* history: number of updateHospitals calls started so far
    newest,                   \* history: what the latest-started call that has answered obtained
    ticks,                    \* history: number of clock advances so far
    steps,                    \* history: number of steps taken so far
    tracker,                  \* the state of the OptimizedHospitalTracker component (see TrackerDefaults)
    routing,                  \* a call of RoutingService.getMultipleRoutes and its promises (see NoCall)
    ranking,                  \* a call of WorkCentricHospitalService.findNearbyHospitals (see NoRanking)
    cancelled,                \* history: the callbacks whose unsubscribe function has been called
    held,                     \* history: the snapshot a subscriber received last (see Kept)
    revived                   \* history: the location updates of devices that were offline (see Reviving)

vars == <<devices, hospitals, hospitalRoutes, autoSelectShortestRoute, subscribers,
          networkTopology, connections, emergencyMode, now, runs, timers,
          published, notified, lastOp, started, newest, ticks, steps, tracker,
          routing, ranking, cancelled, held, revived>>

---------------------------------------------------------------------------
(* Bounds of the model *)

MaxDevices == 2
MaxSubscribers == 1
MaxUpdates == 2
MaxTicks == 3
MaxSteps == 7
FleetSteps == 2
MaxFleet == 6
TopologySteps == 1
TrackerSteps == 8
MaxListeners == 2
MaxDestinations == 3
LiveSteps == 4
ReviveSteps == 4

(* Program constants *)

StaleTimeoutMs == 30000
TopHospitals == 5
TopFacilitiesForBonus == 3

DeviceIds == 1..MaxDevices
Callbacks == 1..MaxSubscribers

\* Where the location feed can put a device: the map centre and a point 0.02 degrees east.
Positions == {<<0, 0>>, <<0, 2>>}

\* The clock advances by one of these amounts (ms) between operations.
TickSteps == {1, StaleTimeoutMs}

Topologies == {"emergency", "work-optimal", "mst", "ring"}

---------------------------------------------------------------------------
(* Generic helpers *)

Abs(x) == IF x < 0 THEN -x ELSE x

Min(a, b) == IF a < b THEN a ELSE b

Range(s) == {s[i] : i \in DOMAIN s}

\* Array.prototype.slice(0, n)
Slice(s, n) == SubSeq(s, 1, Min(n, Len(s)))

\* Array.prototype.sort(compare) is stable.  Before(a, b) is compare(a, b) < 0, always
\* a comparison of numeric keys here: element i lands after the elements that compare
\* puts strictly before it and after the earlier elements that compare as equal to it.
SortBy(s, Before(_, _)) ==
    LET t == SubSeq(s, 1, Len(s))
        place == SubSeq([i \in DOMAIN t |-> 1 + Cardinality({j \in DOMAIN t :
                            \/ Before(t[j], t[i])
                            \/ (~Before(t[i], t[j]) /\ j < i)})], 1, Len(t))
    IN  [k \in DOMAIN t |-> t[CHOOSE i \in DOMAIN t : place[i] = k]]

---------------------------------------------------------------------------
(* haversine, App.jsx:14-24 *)

\* The value of the formula, rounded to the millimetre, for latitude offsets -1..1 and
\* longitude differences 0..10: entry (lat1 + 1) * 33 + (lat2 + 1) * 11 + |dLon| + 1.
HaversineMm ==
    << 0, 1026669, 2053338, 3080006, 4106675, 5133344, 6160013, 7186682, 8213350, 9240019, 10266688,
       1111949, 1513408, 2335020, 3274474, 4254408, 5252213, 6259348, 7271937, 8287983, 9306352, 10326357,
       2223899, 2449412, 3026765, 3798787, 4669910, 5594025, 6548738, 7522407, 8508528, 9503225, 10504061,
       1111949, 1513408, 2335020, 3274474, 4254408, 5252213, 6259348, 7271937, 8287983, 9306352, 10326357,
       0, 1026594, 2053188, 3079783, 4106377, 5132971, 6159565, 7186160, 8212754, 9239348, 10265942,
       1111949, 1513357, 2334889, 3274264, 4254120, 5251848, 6258907, 7271421, 8287391, 9305685, 10325616,
       2223899, 2449412, 3026765, 3798787, 4669910, 5594025, 6548738, 7522407, 8508528, 9503225, 10504061,
       1111949, 1513357, 2334889, 3274264, 4254120, 5251848, 6258907, 7271421, 8287391, 9305685, 10325616,
       0, 1026520, 2053039, 3079559, 4106079, 5132598, 6159118, 7185638, 8212157, 9238677, 10265196 >>

haversine(lat1, lon1, lat2, lon2) ==
    HaversineMm[(lat1 + 1) * 33 + (lat2 + 1) * 11 + Abs(lon2 - lon1) + 1]

---------------------------------------------------------------------------
(* RoutingService, App.jsx:38-96 *)

\* What the routing provider can answer for one request: the fetch rejects (fetched is
\* FALSE), the response has a non-success status (ok is FALSE), or its body holds a list
\* of routes, each with its length in metres, its duration in seconds and its GeoJSON
\* polyline of [lon, lat] pairs.
NoRoute == [fetched |-> FALSE, ok |-> FALSE, routes |-> <<>>]

BadStatus == [fetched |-> TRUE, ok |-> FALSE, routes |-> <<>>]

EmptyRouteList == [fetched |-> TRUE, ok |-> TRUE, routes |-> <<>>]

RouteFailures == {NoRoute, BadStatus, EmptyRouteList}

ProviderRoute(fromLat, fromLng, toLat, toLng) ==
    [fetched |-> TRUE, ok |-> TRUE,
     routes |-> <<[distance |-> 12000, duration |-> 900,
                   geometry |-> <<<<fromLng, fromLat>>, <<toLng, fromLat>>,
                                  <<toLng, toLat>>>>]>>]

\* A body with two routes, the first of them longer and by the other corner
ProviderDetour(fromLat, fromLng, toLat, toLng) ==
    [fetched |-> TRUE, ok |-> TRUE,
     routes |-> <<[distance |-> 15000, duration |-> 1200,
                   geometry |-> <<<<fromLng, fromLat>>, <<fromLng, toLat>>,
                                  <<toLng, toLat>>>>]>> \o
                ProviderRoute(fromLat, fromLng, toLat, toLng).routes]

ProviderResponses(fromLat, fromLng, toLat, toLng) ==
    {NoRoute, ProviderRoute(fromLat, fromLng, toLat, toLng)}

\* Variant of getRoute that takes the first route of the body without looking at the
\* length of the list and never falls back on an empty one: C20 must not survive it
getRouteUncheckedList(fromLat, fromLng, toLat, toLng, response) ==
    IF response.fetched /\ response.ok
    THEN [coordinates |-> IF response.routes = <<>> THEN <<>>
                          ELSE [i \in DOMAIN response.routes[1].geometry |->
                                  <<response.routes[1].geometry[i][2],
                                    response.routes[1].geometry[i][1]>>],
          distance    |-> IF response.routes = <<>> THEN 0
                          ELSE response.routes[1].distance * 1000,
          duration    |-> IF response.routes = <<>> THEN 0
                          ELSE (response.routes[1].duration * 1000000) \div 60,
          isFallback  |-> FALSE]
    ELSE [coordinates |-> <<<<fromLat, fromLng>>, <<toLat, toLng>>>>,
          distance    |-> haversine(fromLat, fromLng, toLat, toLng),
          duration    |-> haversine(fromLat, fromLng, toLat, toLng) * 2,
          isFallback  |-> TRUE]

\* The try block returns the first route of a fetched, successful, non-empty answer;
\* every other outcome throws inside it and the catch block returns the straight line.
\* (A route the provider returned has no isFallback property: FALSE stands for that.)
getRoute(fromLat, fromLng, toLat, toLng, response) ==
    IF response.fetched /\ response.ok /\ Len(response.routes) > 0
    THEN LET route == response.routes[1]
         IN  [coordinates |-> [i \in DOMAIN route.geometry |->
                                 <<route.geometry[i][2], route.geometry[i][1]>>],
              distance    |-> route.distance * 1000,
              duration    |-> (route.duration * 1000000) \div 60,
              isFallback  |-> FALSE]
    ELSE [coordinates |-> <<<<fromLat, fromLng>>, <<toLat, toLng>>>>,
          distance    |-> haversine(fromLat, fromLng, toLat, toLng),
          duration    |-> haversine(fromLat, fromLng, toLat, toLng) * 2,
          isFallback  |-> TRUE]

\* The map over the destinations of App.jsx:77-94; routes[index] is what
\* Promise.allSettled reports for the call made for destinations[index]
Assemble(destinations, routes) ==
    [index \in DOMAIN destinations |->
       LET dest == destinations[index]
           routeResult == routes[index]
       IN  IF routeResult.status = "fulfilled"
           THEN [id |-> dest.id, position |-> dest.position, distance |-> dest.distance,
                 emergency |-> dest.emergency, wheelchairAccess |-> dest.wheelchairAccess,
                 workPriority |-> dest.workPriority,
                 route |-> <<routeResult.value>>,
                 roadDistance |-> routeResult.value.distance,
                 estimatedTime |-> routeResult.value.duration]
           ELSE [id |-> dest.id, position |-> dest.position, distance |-> dest.distance,
                 emergency |-> dest.emergency, wheelchairAccess |-> dest.wheelchairAccess,
                 workPriority |-> dest.workPriority,
                 route |-> <<>>,
                 roadDistance |-> dest.distance,
                 estimatedTime |-> dest.distance * 2]]

\* What Promise.allSettled reports for a call of getRoute that got `response`: getRoute
\* catches every failure, so its promise is always fulfilled
Settled(fromLat, fromLng, dest, response) ==
    [status |-> "fulfilled",
     value  |-> getRoute(fromLat, fromLng, dest.position[1], dest.position[2], response)]

\* responses[i] is the provider's answer to the request for destinations[i]
getMultipleRoutes(fromLat, fromLng, destinations, responses) ==
    Assemble(destinations,
             [i \in DOMAIN destinations |->
                Settled(fromLat, fromLng, destinations[i], responses[i])])

---------------------------------------------------------------------------
(* WorkCentricHospitalService, App.jsx:99-191 *)

\* The directory's records: id, centre (absent when the record has no resolvable
\* coordinates) and the tags the ranking reads.
Element1 == [id |-> 1, center |-> <<1, 0>>, emergency |-> TRUE,
             wheelchair |-> FALSE, emergencyHours |-> FALSE]
Element2 == [id |-> 2, center |-> <<0, 3>>, emergency |-> FALSE,
             wheelchair |-> TRUE, emergencyHours |-> FALSE]

\* What the directory can answer: the fetch rejects (fetched is FALSE), the response has
\* a non-success status (ok is FALSE), its body cannot be read as an object with a list
\* of elements (parsed is FALSE), or it holds a list of records.
DirectoryFailure == [fetched |-> FALSE, ok |-> FALSE, parsed |-> FALSE, elements |-> <<>>]

DirectoryBadStatus == [fetched |-> TRUE, ok |-> FALSE, parsed |-> FALSE, elements |-> <<>>]

DirectoryMalformed == [fetched |-> TRUE, ok |-> TRUE, parsed |-> FALSE, elements |-> <<>>]

DirectoryFailures == {DirectoryFailure, DirectoryBadStatus, DirectoryMalformed}

Directory(elements) ==
    [fetched |-> TRUE, ok |-> TRUE, parsed |-> TRUE, elements |-> elements]

DirectoryResponses ==
    {DirectoryFailure} \cup
    {Directory(e) : e \in {<<>>, <<Element1>>, <<Element2>>, <<Element1, Element2>>}}

TwoKm == 2000000
FiveKm == 5000000
TenKm == 10000000

HospitalId(n) == <<"hospital", n>>
FallbackHospitalId(index) == <<"fallback-hospital", index>>

\* compare of App.jsx:156-161
RankedBefore(a, b) ==
    IF b.workPriority # a.workPriority
    THEN b.workPriority - a.workPriority < 0
    ELSE a.distance - b.distance < 0

\* compare of App.jsx:189
PriorityBefore(a, b) == b.workPriority - a.workPriority < 0

getFallbackHospitals(latitude, longitude) ==
    LET fallbackHospitals ==
            << [lat |-> latitude + 1, lon |-> longitude + 1, emergency |-> TRUE],
               [lat |-> latitude - 1, lon |-> longitude + 1, emergency |-> FALSE],
               [lat |-> latitude + 1, lon |-> longitude - 1, emergency |-> FALSE],
               [lat |-> latitude - 1, lon |-> longitude - 1, emergency |-> TRUE] >>
        mapped == [i \in DOMAIN fallbackHospitals |->
                     LET hospital == fallbackHospitals[i]
                     IN  [id |-> FallbackHospitalId(i - 1),
                          position |-> <<hospital.lat, hospital.lon>>,
                          distance |-> haversine(latitude, longitude, hospital.lat, hospital.lon),
                          emergency |-> hospital.emergency,
                          wheelchairAccess |-> FALSE,
                          workPriority |-> IF hospital.emergency THEN 10 ELSE 5]]
    IN  SortBy(mapped, PriorityBefore)

\* Variant of Facility whose proximity bonuses add up (a facility nearer than 2 km also
\* gets the bonuses of the wider rings): C28 must not survive it
FacilityStackedBonus(latitude, longitude, element) ==
    LET lat == element.center[1]
        lon == element.center[2]
        distance == haversine(latitude, longitude, lat, lon)
        isEmergency == element.emergency
        workPriority ==
            (IF isEmergency THEN 10 ELSE 0)
            + (IF element.wheelchair THEN 5 ELSE 0)
            + (IF element.emergencyHours THEN 3 ELSE 0)
            + (IF distance < TwoKm THEN 8 ELSE 0)
            + (IF distance < FiveKm THEN 5 ELSE 0)
            + (IF distance < TenKm THEN 2 ELSE 0)
    IN  [id |-> HospitalId(element.id),
         position |-> <<lat, lon>>,
         distance |-> distance,
         emergency |-> isEmergency,
         wheelchairAccess |-> element.wheelchair,
         workPriority |-> workPriority]

\* The facility built from one directory record (App.jsx:127-154)
Facility(latitude, longitude, element) ==
    LET lat == element.center[1]
        lon == element.center[2]
        distance == haversine(latitude, longitude, lat, lon)
        isEmergency == element.emergency
        workPriority ==
            (IF isEmergency THEN 10 ELSE 0)
            + (IF element.wheelchair THEN 5 ELSE 0)
            + (IF element.emergencyHours THEN 3 ELSE 0)
            + (IF distance < TwoKm THEN 8
               ELSE IF distance < FiveKm THEN 5
               ELSE IF distance < TenKm THEN 2 ELSE 0)
    IN  [id |-> HospitalId(element.id),
         position |-> <<lat, lon>>,
         distance |-> distance,
         emergency |-> isEmergency,
         wheelchairAccess |-> element.wheelchair,
         workPriority |-> workPriority]

\* Variant of findNearbyHospitals that also falls back when the directory lists nothing:
\* C21 must not survive it
findNearbyHospitalsFallbackOnEmpty(latitude, longitude, response) ==
    IF response.fetched /\ response.ok /\ response.parsed /\ response.elements # <<>>
    THEN LET kept == SelectSeq(response.elements, LAMBDA e : e.center # <<>>)
             found == [i \in DOMAIN kept |-> Facility(latitude, longitude, kept[i])]
         IN  SortBy(found, RankedBefore)
    ELSE getFallbackHospitals(latitude, longitude)

\* Every failure throws inside the try block and the catch block returns the fallback
findNearbyHospitals(latitude, longitude, response) ==
    IF response.fetched /\ response.ok /\ response.parsed
    THEN LET kept == SelectSeq(response.elements, LAMBDA e : e.center # <<>>)
             found == [i \in DOMAIN kept |-> Facility(latitude, longitude, kept[i])]
         IN  SortBy(found, RankedBefore)
    ELSE getFallbackHospitals(latitude, longitude)

---------------------------------------------------------------------------
(* OptimizedNetworkPathfinder, App.jsx:194-283 *)

\* A device is a record [id, position, lastUpdate, isOnline, workRole, emergencyResponder];
\* name and accuracy are carried opaquely by the code and are left out.  A connection
\* refers to its two device objects; the model names them by id, which identifies the
\* object as long as it is in the registry.

\* Variant of Eligible that forgets isOnline: C9 must not survive it
PositionedOnly(d) == d.position # <<>>

\* d => d.position && d.isOnline
Eligible(d) == d.position # <<>> /\ d.isOnline

DistanceBetween(a, b) ==
    haversine(a.position[1], a.position[2], b.position[1], b.position[2])

DistanceTo(d, hospitalPos) ==
    haversine(d.position[1], d.position[2], hospitalPos[1], hospitalPos[2])

\* The pairs (i, j), i < j <= n, in the order of the nested loops of App.jsx:200-201
RECURSIVE PairsFrom(_, _, _)
PairsFrom(i, j, n) ==
    IF i >= n THEN <<>>
    ELSE IF j > n THEN PairsFrom(i + 1, i + 2, n)
    ELSE <<<<i, j>>>> \o PairsFrom(i, j + 1, n)

ScoreBase == 100000000
HospitalBonus == 20000000

\* Variant of ScoreBefore that sorts ascending: C15 must not survive it
ScoreAscending(a, b) == a.workScore - b.workScore < 0

ScoreBefore(a, b) == b.workScore - a.workScore < 0

\* Variant of findWorkOptimalPaths that adds the bonus once for each endpoint near a
\* facility and looks at every facility: C29 must not survive it
findWorkOptimalPathsPerEndpoint(devs, hosp) ==
    LET nodes == SelectSeq(devs, Eligible)
        hospitalPositions == [k \in DOMAIN hosp |-> hosp[k].position]
        pairs == PairsFrom(1, 2, Len(nodes))
        path(i, j) ==
            LET dist == DistanceBetween(nodes[i], nodes[j])
                near(n) == {k \in DOMAIN hospitalPositions :
                               DistanceTo(nodes[n], hospitalPositions[k]) < TwoKm}
            IN  [distance  |-> dist,
                 from      |-> nodes[i].id,
                 to        |-> nodes[j].id,
                 positions |-> <<nodes[i].position, nodes[j].position>>,
                 workScore |-> ScoreBase - (dist * 10)
                               + HospitalBonus * (Cardinality(near(i)) + Cardinality(near(j)))]
    IN  IF Len(nodes) < 2 THEN <<>>
        ELSE SortBy([p \in DOMAIN pairs |-> path(pairs[p][1], pairs[p][2])], ScoreBefore)

findWorkOptimalPaths(devs, hosp) ==
    LET nodes == SelectSeq(devs, Eligible)
        hospitalPositions == [k \in DOMAIN Slice(hosp, TopFacilitiesForBonus) |-> hosp[k].position]
        pairs == PairsFrom(1, 2, Len(nodes))
        path(i, j) ==
            LET dist == DistanceBetween(nodes[i], nodes[j])
                near == {k \in DOMAIN hospitalPositions :
                            \/ DistanceTo(nodes[i], hospitalPositions[k]) < TwoKm
                            \/ DistanceTo(nodes[j], hospitalPositions[k]) < TwoKm}
            IN  [distance  |-> dist,
                 from      |-> nodes[i].id,
                 to        |-> nodes[j].id,
                 positions |-> <<nodes[i].position, nodes[j].position>>,
                 workScore |-> ScoreBase - (dist * 10) + HospitalBonus * Cardinality(near)]
    IN  IF Len(nodes) < 2 THEN <<>>
        ELSE SortBy([p \in DOMAIN pairs |-> path(pairs[p][1], pairs[p][2])], ScoreBefore)

ShorterBefore(a, b) == a.distance - b.distance < 0

\* Variant of the loop that accepts every path until `target` paths are accepted,
\* whether or not an endpoint is new: C32 must not survive it
RECURSIVE MstLoopAnyPath(_, _, _, _, _)
MstLoopAnyPath(paths, i, mst, connectedNodes, target) ==
    IF i > Len(paths) THEN mst
    ELSE IF Len(mst) + 1 = target
         THEN Append(mst, paths[i])
         ELSE MstLoopAnyPath(paths, i + 1, Append(mst, paths[i]),
                             connectedNodes \cup {paths[i].from, paths[i].to}, target)

\* The loop of App.jsx:232-243 from paths[i] on; target is the number of eligible devices - 1
RECURSIVE MstLoop(_, _, _, _, _)
MstLoop(paths, i, mst, connectedNodes, target) ==
    IF i > Len(paths) THEN mst
    ELSE LET path == paths[i]
             fromConnected == path.from \in connectedNodes
             toConnected == path.to \in connectedNodes
         IN  IF ~fromConnected \/ ~toConnected
             THEN IF Len(mst) + 1 = target
                  THEN Append(mst, path)
                  ELSE MstLoop(paths, i + 1, Append(mst, path),
                               connectedNodes \cup {path.from, path.to}, target)
             ELSE MstLoop(paths, i + 1, mst, connectedNodes, target)

\* Variant of findMinimumSpanningTree that keeps every path, shortest first: C14 must
\* not survive it
findMinimumSpanningTreeAllPaths(devs, hosp) ==
    SortBy(findWorkOptimalPaths(devs, hosp), ShorterBefore)

findMinimumSpanningTree(devs, hosp) ==
    LET paths == findWorkOptimalPaths(devs, hosp)
    IN  IF Len(paths) = 0 THEN <<>>
        ELSE MstLoop(SortBy(paths, ShorterBefore), 1, <<>>, {},
                     Len(SelectSeq(devs, Eligible)) - 1)

\* The forEach of App.jsx:257-266 from onlineDevices[i] on
RECURSIVE ClosestToHospital(_, _, _, _)
ClosestToHospital(onlineDevices, i, closestToHospital, nearestHospital) ==
    IF i > Len(onlineDevices) THEN closestToHospital
    ELSE IF DistanceTo(onlineDevices[i], nearestHospital.position)
              < DistanceTo(closestToHospital, nearestHospital.position)
         THEN ClosestToHospital(onlineDevices, i + 1, onlineDevices[i], nearestHospital)
         ELSE ClosestToHospital(onlineDevices, i + 1, closestToHospital, nearestHospital)

\* Variant of createEmergencyTopology whose hub is the first online device, whatever
\* its distance to the facility: C11 must not survive it
createEmergencyTopologyFromFirst(devs, hosp) ==
    LET onlineDevices == SelectSeq(devs, Eligible)
    IN  IF Len(onlineDevices) = 0 \/ Len(hosp) = 0 THEN <<>>
        ELSE LET closest == onlineDevices[1]
                 others == SelectSeq(onlineDevices, LAMBDA d : d.id # closest.id)
             IN  [k \in DOMAIN others |->
                    [distance        |-> DistanceBetween(closest, others[k]),
                     from            |-> closest.id,
                     to              |-> others[k].id,
                     positions       |-> <<closest.position, others[k].position>>,
                     isEmergencyPath |-> TRUE]]

createEmergencyTopology(devs, hosp) ==
    LET onlineDevices == SelectSeq(devs, Eligible)
    IN  IF Len(onlineDevices) = 0 \/ Len(hosp) = 0 THEN <<>>
        ELSE LET closest == ClosestToHospital(onlineDevices, 1, onlineDevices[1], hosp[1])
                 others == SelectSeq(onlineDevices, LAMBDA d : d.id # closest.id)
             IN  [k \in DOMAIN others |->
                    [distance        |-> DistanceBetween(closest, others[k]),
                     from            |-> closest.id,
                     to              |-> others[k].id,
                     positions       |-> <<closest.position, others[k].position>>,
                     isEmergencyPath |-> TRUE]]

---------------------------------------------------------------------------
(* WorkCentricLocationService, App.jsx:286-472: pure parts *)

Has(devs, deviceId) == \E i \in DOMAIN devs : devs[i].id = deviceId

Get(devs, deviceId) == devs[CHOOSE i \in DOMAIN devs : devs[i].id = deviceId]

\* Map.prototype.set: an existing key keeps its place, a new key goes last
MapSet(devs, device) ==
    IF Has(devs, device.id)
    THEN [i \in DOMAIN devs |-> IF devs[i].id = device.id THEN device ELSE devs[i]]
    ELSE Append(devs, device)

\* Map.prototype.delete
MapDelete(devs, deviceId) == SelectSeq(devs, LAMBDA d : d.id # deviceId)

\* The forEach of App.jsx:364-373 from devices[i] on
RECURSIVE ClosestDevice(_, _, _, _)
ClosestDevice(online, i, closestDevice, nearestHospital) ==
    IF i > Len(online) THEN closestDevice
    ELSE IF DistanceTo(online[i], nearestHospital.position)
              < DistanceTo(closestDevice, nearestHospital.position)
         THEN ClosestDevice(online, i + 1, online[i], nearestHospital)
         ELSE ClosestDevice(online, i + 1, closestDevice, nearestHospital)

\* Variant of assignWorkRoles that promotes the last of the devices that are equally
\* close (dist <= shortestDist in the loop): C12 must not survive it
assignWorkRolesLastClosest(devs, online, hosp) ==
    LET ids == {online[i].id : i \in DOMAIN online}
        last == CHOOSE i \in DOMAIN online :
                    \A j \in DOMAIN online :
                        /\ DistanceTo(online[i], hosp[1].position)
                               <= DistanceTo(online[j], hosp[1].position)
                        /\ j > i => DistanceTo(online[i], hosp[1].position)
                                        < DistanceTo(online[j], hosp[1].position)
        promoted == IF Len(hosp) > 0 /\ Len(online) > 0 THEN {online[last].id} ELSE {}
    IN  [i \in DOMAIN devs |->
           IF devs[i].id \in promoted
           THEN [devs[i] EXCEPT !.workRole = "emergency-responder", !.emergencyResponder = TRUE]
           ELSE IF devs[i].id \in ids
           THEN [devs[i] EXCEPT !.workRole = "worker", !.emergencyResponder = FALSE]
           ELSE devs[i]]

\* assignWorkRoles(online) writes to the device objects of `online`, which are the
\* registry's own objects: the result is the registry `devs` after those writes.
assignWorkRoles(devs, online, hosp) ==
    LET ids == {online[i].id : i \in DOMAIN online}
        promoted == IF Len(hosp) > 0 /\ Len(online) > 0
                    THEN {ClosestDevice(online, 1, online[1], hosp[1]).id}
                    ELSE {}
    IN  [i \in DOMAIN devs |->
           IF devs[i].id \in promoted
           THEN [devs[i] EXCEPT !.workRole = "emergency-responder", !.emergencyResponder = TRUE]
           ELSE IF devs[i].id \in ids
           THEN [devs[i] EXCEPT !.workRole = "worker", !.emergencyResponder = FALSE]
           ELSE devs[i]]

\* Variant of updateNetworkTopology whose early return leaves this.connections as it
\* was: C13 must not survive it
updateNetworkTopologyKeepsConnections(devs, hosp, topology) ==
    LET onlineDevices == SelectSeq(devs, Eligible)
        built ==
            CASE topology = "emergency"    -> createEmergencyTopology(onlineDevices, hosp)
              [] topology = "work-optimal" -> Slice(findWorkOptimalPaths(onlineDevices, hosp),
                                                    Len(onlineDevices) * 2)
              [] topology = "mst"          -> findMinimumSpanningTree(onlineDevices, hosp)
              [] OTHER                     -> createEmergencyTopology(onlineDevices, hosp)
    IN  IF Len(onlineDevices) < 2
        THEN [devices |-> devs, connections |-> connections]
        ELSE [devices |-> assignWorkRoles(devs, onlineDevices, hosp), connections |-> built]

\* Variant of updateNetworkTopology whose default case builds the spanning tree: C16
\* must not survive it
updateNetworkTopologyDefaultMst(devs, hosp, topology) ==
    LET onlineDevices == SelectSeq(devs, Eligible)
        built ==
            CASE topology = "emergency"    -> createEmergencyTopology(onlineDevices, hosp)
              [] topology = "work-optimal" -> Slice(findWorkOptimalPaths(onlineDevices, hosp),
                                                    Len(onlineDevices) * 2)
              [] OTHER                     -> findMinimumSpanningTree(onlineDevices, hosp)
    IN  IF Len(onlineDevices) < 2
        THEN [devices |-> devs, connections |-> <<>>]
        ELSE [devices |-> assignWorkRoles(devs, onlineDevices, hosp), connections |-> built]

\* updateNetworkTopology: the registry and the connection list it leaves
updateNetworkTopology(devs, hosp, topology) ==
    LET onlineDevices == SelectSeq(devs, Eligible)
        built ==
            CASE topology = "emergency"    -> createEmergencyTopology(onlineDevices, hosp)
              [] topology = "work-optimal" -> Slice(findWorkOptimalPaths(onlineDevices, hosp),
                                                    Len(onlineDevices) * 2)
              [] topology = "mst"          -> findMinimumSpanningTree(onlineDevices, hosp)
              [] OTHER                     -> createEmergencyTopology(onlineDevices, hosp)
    IN  IF Len(onlineDevices) < 2
        THEN [devices |-> devs, connections |-> <<>>]
        ELSE [devices |-> assignWorkRoles(devs, onlineDevices, hosp), connections |-> built]

getEmergencyRoute(routes) == IF Len(routes) > 0 THEN <<routes[1]>> ELSE <<>>

getShortestRoute(auto) == auto

\* The object notifySubscribers hands to every callback, as it reads at that moment
Snapshot(devs, conns, hosp, routes, topology, emergency, auto) ==
    [devices        |-> devs,
     connections    |-> conns,
     hospitals      |-> hosp,
     hospitalRoutes |-> routes,
     topology       |-> topology,
     workContext    |-> [emergencyMode |-> emergency, prioritizeSpeed |-> TRUE,
                         maxResponseTime |-> 15],
     emergencyRoute |-> getEmergencyRoute(routes),
     shortestRoute  |-> getShortestRoute(auto)]

\* workPriority + 20 / (roadDistance + 0.1), in ten-thousandths, by long division
UrgencyScore(r) ==
    LET d  == r.roadDistance + 100000
        q0 == 2000000000 \div d
        r0 == 2000000000 % d
        q1 == (r0 * 10) \div d
        r1 == (r0 * 10) % d
        q2 == (r1 * 10) \div d
    IN  r.workPriority * 10000 + q0 * 100 + q1 * 10 + q2

\* Variant of UrgencyBefore that compares the priorities alone: C23 must not survive it
UrgencyByPriorityOnly(a, b) == b.workPriority - a.workPriority < 0

\* compare of App.jsx:308-312
UrgencyBefore(a, b) == UrgencyScore(b) - UrgencyScore(a) < 0

---------------------------------------------------------------------------
(* WorkCentricLocationService: state and operations *)

\* The component's state before it mounts (the useState defaults of App.jsx:488-512)
\* and what its closures hold:
\*   selectedRoute, autoRouting, networkData, myPosition, isSharing: the state cells;
\*   effect: the selectedRoute and autoRouting that the subscribed callback closes over;
\*   watch: absent, or the values the successCallback registered with watchPosition
\*          closes over;
\*   awaiting: for each suspended updateHospitals call of `runs`, the closure of the
\*          successCallback that awaits it;
\*   timers: the closures of the pending setTimeout(..., 1000) callbacks.
TrackerDefaults ==
    [selectedRoute |-> <<>>,
     autoRouting   |-> TRUE,
     networkData   |-> [devices |-> <<>>, connections |-> <<>>, hospitals |-> <<>>,
                        hospitalRoutes |-> <<>>, topology |-> "emergency",
                        emergencyRoute |-> <<>>],
     myPosition    |-> <<>>,
     isSharing     |-> FALSE,
     effect        |-> [selectedRoute |-> <<>>, autoRouting |-> TRUE],
     watch         |-> <<>>,
     awaiting      |-> <<>>,
     timers        |-> <<>>]

\* No call of getMultipleRoutes has been made.  Of a call:
\*   pc: "pending" until Promise.allSettled resolves, then "returned";
\*   promises[i]: the promise of the getRoute call for destinations[i];
\*   answers[i]: history, what the provider answered to that call;
\*   order: history, the destinations' indexes in the order their calls completed;
\*   result: what the call returned.
NoCall ==
    [pc |-> "idle", fromLat |-> 0, fromLng |-> 0, destinations |-> <<>>,
     promises |-> <<>>, answers |-> <<>>, order |-> <<>>, result |-> <<>>]

\* No call of findNearbyHospitals has been made.  Of a call: pc is "pending" until the
\* directory has answered, then "returned"; response is what the directory answered and
\* result what the call returned.
NoRanking ==
    [pc |-> "idle", latitude |-> 0, longitude |-> 0, response |-> <<>>, result |-> <<>>]

Init ==
    /\ tracker = TrackerDefaults
    /\ routing = NoCall
    /\ ranking = NoRanking
    /\ cancelled = {}
    /\ held = <<>>
    /\ revived = {}
    /\ devices = <<>>
    /\ hospitals = <<>>
    /\ hospitalRoutes = <<>>
    /\ autoSelectShortestRoute = <<>>
    /\ subscribers = {}
    /\ networkTopology = "emergency"
    /\ connections = <<>>
    /\ emergencyMode = FALSE
    /\ now = 0
    /\ runs = <<>>
    /\ timers = 0
    /\ published = <<>>
    /\ notified = {}
    /\ lastOp = <<"constructor">>
    /\ started = 0
    /\ newest = [n |-> 0, hospitals |-> <<>>, routes |-> <<>>]
    /\ ticks = 0
    /\ steps = 0

\* Variant of notifySubscribers that also invokes the callbacks that were removed from
\* the set: C25 must not survive it
NotifyAlsoUnsubscribed(snapshot) ==
    /\ published' = <<snapshot>>
    /\ notified' = subscribers \cup {c[1] : c \in cancelled}

\* notifySubscribers with the state as given: every current callback gets the snapshot
Notify(snapshot) ==
    /\ published' = <<snapshot>>
    /\ notified' = subscribers

Silent ==
    /\ published' = <<>>
    /\ notified' = {}

\* A call of updateHospitals up to its first await: the directory request is in flight
\* (device: the id updateDeviceLocation was called with, absent for a direct call)
NewRun(caller, device, latitude, longitude) ==
    [n |-> started + 1, caller |-> caller, device |-> device,
     latitude |-> latitude, longitude |-> longitude,
     pc |-> "directory", topHospitals |-> <<>>]

RemoveAt(s, i) == [k \in 1..(Len(s) - 1) |-> IF k < i THEN s[k] ELSE s[k + 1]]

subscribe(callback) ==
    /\ subscribers' = subscribers \cup {callback}
    /\ lastOp' = <<"subscribe", callback>>
    /\ Silent
    /\ UNCHANGED <<devices, hospitals, hospitalRoutes, autoSelectShortestRoute,
                   networkTopology, connections, emergencyMode, now, runs, timers,
                   started, newest, ticks>>

\* The function subscribe returned, called by the effect's cleanup
unsubscribe(callback) ==
    /\ callback \in subscribers
    /\ subscribers' = subscribers \ {callback}
    /\ lastOp' = <<"unsubscribe", callback>>
    /\ Silent
    /\ UNCHANGED <<devices, hospitals, hospitalRoutes, autoSelectShortestRoute,
                   networkTopology, connections, emergencyMode, now, runs, timers,
                   started, newest, ticks>>

registerDevice(deviceId, workRole) ==
    LET device == [id |-> deviceId, position |-> <<>>, lastUpdate |-> <<>>,
                   isOnline |-> TRUE, workRole |-> workRole, emergencyResponder |-> FALSE]
        rebuilt == updateNetworkTopology(MapSet(devices, device), hospitals, networkTopology)
    IN  /\ devices' = rebuilt.devices
        /\ connections' = rebuilt.connections
        /\ lastOp' = <<"registerDevice", deviceId>>
        /\ Silent
        /\ UNCHANGED <<hospitals, hospitalRoutes, autoSelectShortestRoute, subscribers,
                       networkTopology, emergencyMode, now, runs, timers,
                       started, newest, ticks>>

\* Variant of updateDeviceLocation that creates the device when the id is unknown: C8
\* must not survive it
updateDeviceLocationOrCreate(deviceId, position) ==
    LET device == IF Has(devices, deviceId)
                  THEN Get(devices, deviceId)
                  ELSE [id |-> deviceId, position |-> <<>>, lastUpdate |-> <<>>,
                        isOnline |-> TRUE, workRole |-> "worker",
                        emergencyResponder |-> FALSE]
    IN  /\ lastOp' = <<"updateDeviceLocation", deviceId>>
        /\ Silent
        /\ devices' = MapSet(devices, [device EXCEPT !.position = position,
                                                     !.lastUpdate = <<now>>,
                                                     !.isOnline = TRUE])
        /\ runs' = Append(runs, NewRun("updateDeviceLocation", <<deviceId>>,
                                        position[1], position[2]))
        /\ started' = started + 1
        /\ UNCHANGED <<hospitals, hospitalRoutes, autoSelectShortestRoute, subscribers,
                       networkTopology, connections, emergencyMode, now, timers,
                       newest, ticks>>

\* Variant of updateDeviceLocation that leaves isOnline as it is: C34 must not survive it
updateDeviceLocationStaysOffline(deviceId, position) ==
    /\ lastOp' = <<"updateDeviceLocation", deviceId>>
    /\ Silent
    /\ IF Has(devices, deviceId)
       THEN /\ devices' = MapSet(devices, [Get(devices, deviceId) EXCEPT
                                              !.position = position,
                                              !.lastUpdate = <<now>>])
            /\ runs' = Append(runs, NewRun("updateDeviceLocation", <<deviceId>>,
                                            position[1], position[2]))
            /\ started' = started + 1
       ELSE UNCHANGED <<devices, runs, started>>
    /\ UNCHANGED <<hospitals, hospitalRoutes, autoSelectShortestRoute, subscribers,
                   networkTopology, connections, emergencyMode, now, timers,
                   newest, ticks>>

\* updateDeviceLocation up to its await: the device is written and updateHospitals is
\* called, which suspends on the directory request.
updateDeviceLocation(deviceId, position) ==
    /\ lastOp' = <<"updateDeviceLocation", deviceId>>
    /\ Silent
    /\ IF Has(devices, deviceId)
       THEN /\ devices' = MapSet(devices, [Get(devices, deviceId) EXCEPT
                                              !.position = position,
                                              !.lastUpdate = <<now>>,
                                              !.isOnline = TRUE])
            /\ runs' = Append(runs, NewRun("updateDeviceLocation", <<deviceId>>,
                                            position[1], position[2]))
            /\ started' = started + 1
       ELSE UNCHANGED <<devices, runs, started>>
    /\ UNCHANGED <<hospitals, hospitalRoutes, autoSelectShortestRoute, subscribers,
                   networkTopology, connections, emergencyMode, now, timers,
                   newest, ticks>>

\* updateHospitals called by the location callback itself (App.jsx:587), up to its await
updateHospitals(latitude, longitude) ==
    /\ runs' = Append(runs, NewRun("updateHospitals", <<>>, latitude, longitude))
    /\ started' = started + 1
    /\ lastOp' = <<"updateHospitals">>
    /\ Silent
    /\ UNCHANGED <<devices, hospitals, hospitalRoutes, autoSelectShortestRoute, subscribers,
                   networkTopology, connections, emergencyMode, now, timers,
                   newest, ticks>>

\* The tail of updateHospitals (App.jsx:315) and, for a call made by
\* updateDeviceLocation, the continuation that resumes in the same turn of the event
\* loop (App.jsx:404-407).  hosp, routes, auto: the fields as the run has just set them.
Complete(run, hosp, routes, auto) ==
    /\ Notify(Snapshot(devices, connections, hosp, routes, networkTopology,
                       emergencyMode, auto))
    /\ IF run.caller = "updateDeviceLocation"
       THEN LET rebuilt == updateNetworkTopology(devices, hosp, networkTopology)
            IN  /\ devices' = rebuilt.devices
                /\ connections' = rebuilt.connections
                /\ timers' = timers + 1
       ELSE UNCHANGED <<devices, connections, timers>>

\* The directory answers run i: updateHospitals resumes at App.jsx:304
directoryResponds(i, response) ==
    LET run == runs[i]
        found == findNearbyHospitals(run.latitude, run.longitude, response)
    IN  /\ run.pc = "directory"
        /\ hospitals' = found
        /\ newest' = IF run.n >= newest.n
                     THEN [n |-> run.n, hospitals |-> found, routes |-> <<>>]
                     ELSE newest
        /\ lastOp' = <<"directoryResponds", run.n, run.caller>>
        /\ IF Len(found) > 0
           THEN /\ runs' = [runs EXCEPT ![i].pc = "routes",
                                        ![i].topHospitals = Slice(found, TopHospitals)]
                /\ Silent
                /\ UNCHANGED <<devices, connections, timers>>
           ELSE /\ runs' = RemoveAt(runs, i)
                /\ Complete(run, found, hospitalRoutes, autoSelectShortestRoute)
        /\ UNCHANGED <<hospitalRoutes, autoSelectShortestRoute, subscribers,
                       networkTopology, emergencyMode, now, started, ticks>>

\* Every routing request of run i has settled: updateHospitals resumes at App.jsx:307
routesSettle(i, responses) ==
    LET run == runs[i]
        routes == SortBy(getMultipleRoutes(run.latitude, run.longitude,
                                           run.topHospitals, responses), UrgencyBefore)
        auto == IF Len(routes) > 0 THEN <<routes[1]>> ELSE <<>>
    IN  /\ run.pc = "routes"
        /\ hospitalRoutes' = routes
        /\ autoSelectShortestRoute' = auto
        /\ newest' = IF run.n = newest.n THEN [newest EXCEPT !.routes = routes] ELSE newest
        /\ lastOp' = <<"routesSettle", run.n, run.caller>>
        /\ runs' = RemoveAt(runs, i)
        /\ Complete(run, hospitals, routes, auto)
        /\ UNCHANGED <<hospitals, subscribers, networkTopology, emergencyMode, now,
                       started, ticks>>

\* Variant of timerFires that publishes nothing: C24 must not survive it
timerFiresSilently ==
    /\ timers > 0
    /\ timers' = timers - 1
    /\ Silent
    /\ lastOp' = <<"timerFires">>
    /\ UNCHANGED <<devices, hospitals, hospitalRoutes, autoSelectShortestRoute, subscribers,
                   networkTopology, connections, emergencyMode, now, runs,
                   started, newest, ticks>>

\* The callback of setTimeout(..., 100) of App.jsx:405-407
timerFires ==
    /\ timers > 0
    /\ timers' = timers - 1
    /\ Notify(Snapshot(devices, connections, hospitals, hospitalRoutes, networkTopology,
                       emergencyMode, autoSelectShortestRoute))
    /\ lastOp' = <<"timerFires">>
    /\ UNCHANGED <<devices, hospitals, hospitalRoutes, autoSelectShortestRoute, subscribers,
                   networkTopology, connections, emergencyMode, now, runs,
                   started, newest, ticks>>

IsEmergencyPath(c) == "isEmergencyPath" \in DOMAIN c /\ c.isEmergencyPath

\* history: what a device is in a connection list
PlaceInTopology(conns, deviceId) ==
    IF \E k \in DOMAIN conns : conns[k].from = deviceId /\ IsEmergencyPath(conns[k])
    THEN "hub"
    ELSE IF \E k \in DOMAIN conns : conns[k].from = deviceId \/ conns[k].to = deviceId
    THEN "endpoint"
    ELSE "none"

\* Variant of removeDevice that deletes and publishes without the rebuild: C5 must not
\* survive it
removeDeviceWithoutRebuild(deviceId) ==
    /\ devices' = MapDelete(devices, deviceId)
    /\ Notify(Snapshot(MapDelete(devices, deviceId), connections, hospitals, hospitalRoutes,
                       networkTopology, emergencyMode, autoSelectShortestRoute))
    /\ lastOp' = <<"removeDevice", deviceId, PlaceInTopology(connections, deviceId)>>
    /\ UNCHANGED <<hospitals, hospitalRoutes, autoSelectShortestRoute, subscribers,
                   networkTopology, connections, emergencyMode, now, runs, timers,
                   started, newest, ticks>>

removeDevice(deviceId) ==
    LET rebuilt == updateNetworkTopology(MapDelete(devices, deviceId), hospitals,
                                         networkTopology)
    IN  /\ devices' = rebuilt.devices
        /\ connections' = rebuilt.connections
        /\ Notify(Snapshot(rebuilt.devices, rebuilt.connections, hospitals, hospitalRoutes,
                           networkTopology, emergencyMode, autoSelectShortestRoute))
        /\ lastOp' = <<"removeDevice", deviceId, PlaceInTopology(connections, deviceId)>>
        /\ UNCHANGED <<hospitals, hospitalRoutes, autoSelectShortestRoute, subscribers,
                       networkTopology, emergencyMode, now, runs, timers,
                       started, newest, ticks>>

setNetworkTopology(topology) ==
    LET rebuilt == updateNetworkTopology(devices, hospitals, topology)
    IN  /\ networkTopology' = topology
        /\ devices' = rebuilt.devices
        /\ connections' = rebuilt.connections
        /\ lastOp' = <<"setNetworkTopology", topology>>
        /\ Silent
        /\ UNCHANGED <<hospitals, hospitalRoutes, autoSelectShortestRoute, subscribers,
                       emergencyMode, now, runs, timers,
                       started, newest, ticks>>

\* Variant of setEmergencyMode that goes back to the mode "work-optimal" when the
\* emergency mode is disabled: C35 must not survive it
setEmergencyModeRestores(enabled) ==
    LET topology == IF enabled THEN "emergency" ELSE "work-optimal"
        rebuilt == updateNetworkTopology(devices, hospitals, topology)
    IN  /\ emergencyMode' = enabled
        /\ networkTopology' = topology
        /\ devices' = rebuilt.devices
        /\ connections' = rebuilt.connections
        /\ lastOp' = <<"setEmergencyMode", enabled>>
        /\ Silent
        /\ UNCHANGED <<hospitals, hospitalRoutes, autoSelectShortestRoute, subscribers,
                       now, runs, timers, started, newest, ticks>>

setEmergencyMode(enabled) ==
    LET topology == IF enabled THEN "emergency" ELSE networkTopology
        rebuilt == updateNetworkTopology(devices, hospitals, topology)
    IN  /\ emergencyMode' = enabled
        /\ networkTopology' = topology
        /\ devices' = rebuilt.devices
        /\ connections' = rebuilt.connections
        /\ lastOp' = <<"setEmergencyMode", enabled>>
        /\ Silent
        /\ UNCHANGED <<hospitals, hospitalRoutes, autoSelectShortestRoute, subscribers,
                       now, runs, timers, started, newest, ticks>>

\* Variant of Stale with the threshold included: C7 must not survive it
StaleAtTimeout(d, time) == d.lastUpdate # <<>> /\ (time - d.lastUpdate[1]) >= StaleTimeoutMs

\* device.lastUpdate && (now - device.lastUpdate) > 30000
Stale(d, time) == d.lastUpdate # <<>> /\ (time - d.lastUpdate[1]) > StaleTimeoutMs

\* Variant of markOfflineIfStale that sets `changed` for every stale device, also one
\* that is offline already: C6 must not survive it
markOfflineIfStaleAlwaysChanged ==
    LET swept == [i \in DOMAIN devices |->
                    IF Stale(devices[i], now)
                    THEN [devices[i] EXCEPT !.isOnline = FALSE]
                    ELSE devices[i]]
        changed == \E i \in DOMAIN devices : Stale(devices[i], now)
        rebuilt == updateNetworkTopology(swept, hospitals, networkTopology)
    IN  /\ lastOp' = <<"markOfflineIfStale">>
        /\ IF changed
           THEN /\ devices' = rebuilt.devices
                /\ connections' = rebuilt.connections
                /\ Notify(Snapshot(rebuilt.devices, rebuilt.connections, hospitals,
                                   hospitalRoutes, networkTopology, emergencyMode,
                                   autoSelectShortestRoute))
           ELSE /\ Silent
                /\ UNCHANGED <<devices, connections>>
        /\ UNCHANGED <<hospitals, hospitalRoutes, autoSelectShortestRoute, subscribers,
                       networkTopology, emergencyMode, now, runs, timers,
                       started, newest, ticks>>

\* Variant of markOfflineIfStale that drops the stale devices from the registry instead
\* of marking them: C27 must not survive it
markOfflineIfStaleDropsStale ==
    LET swept == SelectSeq(devices, LAMBDA d : ~(Stale(d, now) /\ d.isOnline))
        changed == \E i \in DOMAIN devices : Stale(devices[i], now) /\ devices[i].isOnline
        rebuilt == updateNetworkTopology(swept, hospitals, networkTopology)
    IN  /\ lastOp' = <<"markOfflineIfStale">>
        /\ IF changed
           THEN /\ devices' = rebuilt.devices
                /\ connections' = rebuilt.connections
                /\ Notify(Snapshot(rebuilt.devices, rebuilt.connections, hospitals,
                                   hospitalRoutes, networkTopology, emergencyMode,
                                   autoSelectShortestRoute))
           ELSE /\ Silent
                /\ UNCHANGED <<devices, connections>>
        /\ UNCHANGED <<hospitals, hospitalRoutes, autoSelectShortestRoute, subscribers,
                       networkTopology, emergencyMode, now, runs, timers,
                       started, newest, ticks>>

markOfflineIfStale ==
    LET swept == [i \in DOMAIN devices |->
                    IF Stale(devices[i], now) /\ devices[i].isOnline
                    THEN [devices[i] EXCEPT !.isOnline = FALSE]
                    ELSE devices[i]]
        changed == \E i \in DOMAIN devices : Stale(devices[i], now) /\ devices[i].isOnline
        rebuilt == updateNetworkTopology(swept, hospitals, networkTopology)
    IN  /\ lastOp' = <<"markOfflineIfStale">>
        /\ IF changed
           THEN /\ devices' = rebuilt.devices
                /\ connections' = rebuilt.connections
                /\ Notify(Snapshot(rebuilt.devices, rebuilt.connections, hospitals,
                                   hospitalRoutes, networkTopology, emergencyMode,
                                   autoSelectShortestRoute))
           ELSE /\ Silent
                /\ UNCHANGED <<devices, connections>>
        /\ UNCHANGED <<hospitals, hospitalRoutes, autoSelectShortestRoute, subscribers,
                       networkTopology, emergencyMode, now, runs, timers,
                       started, newest, ticks>>

\* Time passes
tick(ms) ==
    /\ ticks < MaxTicks
    /\ now' = now + ms
    /\ ticks' = ticks + 1
    /\ lastOp' = <<"tick">>
    /\ Silent
    /\ UNCHANGED <<devices, hospitals, hospitalRoutes, autoSelectShortestRoute, subscribers,
                   networkTopology, connections, emergencyMode, runs, timers,
                   started, newest>>

---------------------------------------------------------------------------
(* The environment: what the directory and the routing provider answer *)

EmptyDirectory == Directory(<<>>)

\* The provider is down for every request of the run
AllDown(run) == {[k \in DOMAIN run.topHospitals |-> NoRoute]}

\* Every combination of per-request failure and success
AnyRoutes(run) ==
    {rs \in [DOMAIN run.topHospitals ->
                {NoRoute} \cup {ProviderRoute(run.latitude, run.longitude,
                                              h.position[1], h.position[2]) :
                                    h \in Range(run.topHospitals)}] :
        \A k \in DOMAIN rs :
            rs[k] \in ProviderResponses(run.latitude, run.longitude,
                                        run.topHospitals[k].position[1],
                                        run.topHospitals[k].position[2])}

---------------------------------------------------------------------------
(* Specifications *)

\* The registry, the topology and the publications: every operation of the service
\* that the host calls with a device or a mode, the staleness sweep, and the
\* location pipeline with a directory that fails or finds nothing and a routing
\* provider that is down.
Budget ==
    /\ steps < MaxSteps
    /\ steps' = steps + 1

\* An operation called by a host other than the tracker component, whose callback is
\* not among the subscribers: the component's state stays as it is
Host ==
    /\ Budget
    /\ UNCHANGED <<tracker, routing, ranking, cancelled, held, revived>>

Next ==
    \/ \E callback \in Callbacks : Host /\ subscribe(callback)
    \/ \E deviceId \in DeviceIds : Host /\ registerDevice(deviceId, "worker")
    \/ \E deviceId \in DeviceIds, position \in Positions :
           Host /\ started < MaxUpdates /\ updateDeviceLocation(deviceId, position)
    \/ \E i \in DOMAIN runs, response \in {DirectoryFailure, EmptyDirectory} :
           Host /\ directoryResponds(i, response)
    \/ \E i \in DOMAIN runs : \E responses \in AllDown(runs[i]) :
           Host /\ routesSettle(i, responses)
    \/ Host /\ timerFires
    \/ \E deviceId \in DeviceIds : Host /\ removeDevice(deviceId)
    \/ \E topology \in Topologies : Host /\ setNetworkTopology(topology)
    \/ \E enabled \in BOOLEAN : Host /\ setEmergencyMode(enabled)
    \/ Host /\ markOfflineIfStale
    \/ \E ms \in TickSteps : Host /\ tick(ms)

Spec == Init /\ [][Next]_vars

\* A service that has been running with a fleet of three devices.  Every such state is
\* one the service reaches from Init: the three devices register; those that are
\* "offline" below report at time 0; a ms later those that are "overdue" report; the
\* sweep of time 30001 turns the former offline (the latter are 30000 ms old and stay);
\* a ms later the "fresh" ones report; only then the directory answers, finding
\* nothing for every call but the last and `response` for the last, a call from
\* `origin`, whose routing requests all fail; every timer fires; and
\* setNetworkTopology(topology) rebuilds the topology.  No rebuild of that history sees
\* a facility together with two eligible devices before the last two, so the roles are
\* those the last rebuild assigns.  The histories (started, ticks, steps) count from
\* this state on.
FleetDevice(id, kind, position) ==
    [id |-> id,
     position |-> IF kind = "unreported" THEN <<>> ELSE position,
     lastUpdate |-> CASE kind = "unreported" -> <<>>
                      [] kind = "offline" -> <<0>>
                      [] kind = "overdue" -> <<1>>
                      [] kind = "fresh" -> <<StaleTimeoutMs + 2>>,
     isOnline |-> kind # "offline",
     workRole |-> "worker",
     emergencyResponder |-> FALSE]

FleetKinds ==
    {<<"unreported", <<>>>>} \cup
    {<<kind, position>> : kind \in {"fresh", "overdue", "offline"}, position \in Positions}

\* The state the history above leaves with n devices
FleetState(n, kinds, origin, response, topology) ==
    LET fleet == [i \in 1..n |-> FleetDevice(i, kinds[i][1], kinds[i][2])]
        found == findNearbyHospitals(origin[1], origin[2], response)
        routes == SortBy(getMultipleRoutes(origin[1], origin[2],
                             Slice(found, TopHospitals),
                             [k \in DOMAIN Slice(found, TopHospitals) |-> NoRoute]),
                         UrgencyBefore)
        rebuilt == updateNetworkTopology(fleet, found, topology)
    IN  /\ tracker = TrackerDefaults
        /\ routing = NoCall
        /\ ranking = NoRanking
        /\ cancelled = {}
        /\ held = <<>>
        /\ revived = {}
        /\ devices = rebuilt.devices
        /\ connections = rebuilt.connections
        /\ hospitals = found
        /\ hospitalRoutes = routes
        /\ autoSelectShortestRoute = getEmergencyRoute(routes)
        /\ subscribers = Callbacks
        /\ networkTopology = topology
        /\ emergencyMode = FALSE
        /\ now = StaleTimeoutMs + 2
        /\ runs = <<>>
        /\ timers = 0
        /\ published = <<>>
        /\ notified = {}
        /\ lastOp = <<"setNetworkTopology", topology>>
        /\ started = 0
        /\ newest = [n |-> 0, hospitals |-> found, routes |-> routes]
        /\ ticks = 0

InitFleet ==
    \E kinds \in [1..3 -> FleetKinds], origin \in Positions,
       response \in {DirectoryFailure, EmptyDirectory}, topology \in Topologies :
        /\ FleetState(3, kinds, origin, response, topology)
        /\ steps = MaxSteps - FleetSteps

\* The operations of Spec, from the constructed service and from every fleet state
SpecFleet == (Init \/ InitFleet) /\ [][Next]_vars

\* The topology rebuild over fleets of up to MaxFleet devices, each one unreported or
\* freshly reported (states reached as the fleet states above are, with no device
\* overdue or offline), followed by one operation that rebuilds.
TopologyKinds ==
    {<<"unreported", <<>>>>} \cup {<<"fresh", position>> : position \in Positions}

InitTopology ==
    \E n \in 0..MaxFleet :
        \E kinds \in [1..n -> TopologyKinds], origin \in Positions,
           response \in {DirectoryFailure, EmptyDirectory}, topology \in Topologies :
            /\ FleetState(n, kinds, origin, response, topology)
            /\ steps = MaxSteps - TopologySteps

NextTopology ==
    \/ \E deviceId \in 1..MaxFleet : Host /\ removeDevice(deviceId)
    \/ \E topology \in Topologies : Host /\ setNetworkTopology(topology)
    \/ \E enabled \in BOOLEAN : Host /\ setEmergencyMode(enabled)

SpecTopology == InitTopology /\ [][NextTopology]_vars

---------------------------------------------------------------------------
(* OptimizedHospitalTracker, App.jsx:474-705: the component's state cells, the   *)
(* callback it subscribes to the service and the handlers that touch the selected *)
(* route.  A closure keeps the values of the render it was created in.            *)

\* The callback the effect of App.jsx:530-547 subscribes
TrackerCallback == 0

\* const [myDeviceId] = useState(...), App.jsx:488
MyDeviceId == 1

\* The positions the browser reports to the watch
TrackerPositions == {<<0, 0>>}

\* What the directory answers to the tracker's requests: a failure, or one record
TrackerDirectory == {DirectoryFailure, Directory(<<Element2>>)}

\* The values a function created in the current render closes over
Closure(t) ==
    [selectedRoute |-> t.selectedRoute, autoRouting |-> t.autoRouting,
     hospitalRoutes |-> t.networkData.hospitalRoutes, isSharing |-> t.isSharing]

\* The subscribed callback (App.jsx:531-539) run on the snapshot `data`; selectedRoute
\* and autoRouting are the ones of the render whose effect subscribed it
OnSnapshot(t, data) ==
    LET selected == t.effect.selectedRoute
        t1 == [t EXCEPT !.networkData = data]
    IN  IF /\ data.shortestRoute # <<>>
           /\ t.effect.autoRouting
           /\ (selected = <<>> \/ selected[1].id # data.shortestRoute[1].id)
        THEN [t1 EXCEPT !.selectedRoute = data.shortestRoute]
        ELSE IF data.emergencyRoute # <<>> /\ selected = <<>>
        THEN [t1 EXCEPT !.selectedRoute = data.emergencyRoute]
        ELSE t1

\* The component after a step of the service: the callback has run if the step
\* published to it
Received(t) ==
    IF TrackerCallback \in notified' THEN OnSnapshot(t, published'[1]) ELSE t

\* The component after the service resumed run i: the callback first, then, if the
\* run has returned, the successCallback that awaited it goes on to its
\* setTimeout(..., 1000) of App.jsx:589
Resumed(i) ==
    tracker' = LET t == Received(tracker)
               IN  IF Len(runs') < Len(runs)
                   THEN [t EXCEPT !.awaiting = RemoveAt(@, i),
                                  !.timers = Append(@, t.awaiting[i])]
                   ELSE t

\* A step of the component alone
TrackerOnly ==
    /\ Silent
    /\ UNCHANGED <<devices, hospitals, hospitalRoutes, autoSelectShortestRoute, subscribers,
                   networkTopology, connections, emergencyMode, now, runs, timers,
                   started, newest, ticks>>

\* React runs the effect of App.jsx:530-547 again after a render in which selectedRoute
\* or autoRouting changed: the old callback is unsubscribed, one closing over the
\* current values is subscribed
commit ==
    /\ tracker.effect # [selectedRoute |-> tracker.selectedRoute,
                         autoRouting |-> tracker.autoRouting]
    /\ tracker' = [tracker EXCEPT !.effect = [selectedRoute |-> tracker.selectedRoute,
                                              autoRouting |-> tracker.autoRouting]]
    /\ lastOp' = <<"commit">>
    /\ TrackerOnly

\* toggleTracking when not tracking (App.jsx:654-661), startLocationTracking
\* (App.jsx:549-640): the watch is registered with a successCallback of this render
startLocationTracking ==
    /\ tracker.watch = <<>>
    /\ tracker' = [tracker EXCEPT !.watch = <<Closure(tracker)>>]
    /\ lastOp' = <<"startLocationTracking">>
    /\ TrackerOnly

\* toggleTracking when tracking, stopLocationTracking (App.jsx:642-652)
stopLocationTracking ==
    /\ tracker.watch # <<>>
    /\ removeDevice(MyDeviceId)
    /\ tracker' = [Received(tracker) EXCEPT !.watch = <<>>, !.isSharing = FALSE]

\* The browser reports a position: successCallback up to its await (App.jsx:568-588)
successCallback(position) ==
    /\ tracker.watch # <<>>
    /\ IF tracker.watch[1].isSharing
       THEN updateDeviceLocation(MyDeviceId, position)
       ELSE updateHospitals(position[1], position[2])
    /\ tracker' = LET t == [Received(tracker) EXCEPT !.myPosition = position]
                  IN  IF Len(runs') > Len(runs)
                      THEN [t EXCEPT !.awaiting = Append(@, tracker.watch[1])]
                      ELSE t

\* The callback of setTimeout(..., 1000) of App.jsx:589-599, scheduled first
timeoutFires ==
    /\ tracker.timers # <<>>
    /\ LET closure == tracker.timers[1]
           t == [tracker EXCEPT !.timers = Tail(@)]
       IN  tracker' =
               IF closure.autoRouting /\ Len(closure.hospitalRoutes) > 0
               THEN LET shortest == closure.hospitalRoutes[1]
                    IN  IF \/ closure.selectedRoute = <<>>
                           \/ shortest.roadDistance < closure.selectedRoute[1].roadDistance
                        THEN [t EXCEPT !.selectedRoute = <<shortest>>]
                        ELSE t
               ELSE t
    /\ lastOp' = <<"timeoutFires">>
    /\ TrackerOnly

\* The auto-routing switch, App.jsx:844
toggleAutoRouting ==
    /\ tracker' = [tracker EXCEPT !.autoRouting = ~tracker.autoRouting]
    /\ lastOp' = <<"toggleAutoRouting">>
    /\ TrackerOnly

\* The first route of least roadDistance, as the reduce of App.jsx:682-684 finds it
ShortestOf(routes) ==
    routes[CHOOSE i \in DOMAIN routes :
               /\ \A j \in DOMAIN routes : routes[i].roadDistance <= routes[j].roadDistance
               /\ \A j \in 1..(i - 1) : routes[j].roadDistance > routes[i].roadDistance]

\* selectShortestRoute (App.jsx:680-688); its button is rendered in manual mode when
\* there are routes (App.jsx:857)
selectShortestRoute ==
    /\ ~tracker.autoRouting
    /\ Len(tracker.networkData.hospitalRoutes) > 0
    /\ tracker' = [tracker EXCEPT
                     !.selectedRoute = <<ShortestOf(tracker.networkData.hospitalRoutes)>>]
    /\ lastOp' = <<"selectShortestRoute">>
    /\ TrackerOnly

\* The facilities the user can click: the first eight ranked routes (App.jsx:941) and
\* the markers of the facility list (App.jsx:1098)
Clickable(t) ==
    Range(Slice(t.networkData.hospitalRoutes, 8)) \cup Range(t.networkData.hospitals)

\* What the provider can answer to the request of selectHospitalRoute; the handler
\* returns at once, and asks nothing, without a position of the user or the facility
Answers(t, hospital) ==
    IF t.myPosition = <<>> \/ hospital.position = <<>>
    THEN {}
    ELSE ProviderResponses(t.myPosition[1], t.myPosition[2],
                           hospital.position[1], hospital.position[2])

\* selectHospitalRoute (App.jsx:690-705), from the click to the end of its await
selectHospitalRoute(hospital, response) ==
    /\ tracker.myPosition # <<>>
    /\ hospital.position # <<>>
    /\ LET route == getRoute(tracker.myPosition[1], tracker.myPosition[2],
                             hospital.position[1], hospital.position[2], response)
           chosen == [k \in DOMAIN hospital \cup {"route", "roadDistance", "estimatedTime"} |->
                        CASE k = "route" -> <<route>>
                          [] k = "roadDistance" -> route.distance
                          [] k = "estimatedTime" -> route.duration
                          [] OTHER -> hospital[k]]
       IN  tracker' = [tracker EXCEPT !.selectedRoute = <<chosen>>]
    /\ lastOp' = <<"selectHospitalRoute", hospital.id>>
    /\ TrackerOnly

\* The component mounted on a fresh service: its effect has subscribed the callback
InitTracker ==
    /\ tracker = TrackerDefaults
    /\ routing = NoCall
    /\ ranking = NoRanking
    /\ cancelled = {}
    /\ held = <<>>
    /\ revived = {}
    /\ devices = <<>>
    /\ hospitals = <<>>
    /\ hospitalRoutes = <<>>
    /\ autoSelectShortestRoute = <<>>
    /\ subscribers = {TrackerCallback}
    /\ networkTopology = "emergency"
    /\ connections = <<>>
    /\ emergencyMode = FALSE
    /\ now = 0
    /\ runs = <<>>
    /\ timers = 0
    /\ published = <<>>
    /\ notified = {}
    /\ lastOp = <<"subscribe", TrackerCallback>>
    /\ started = 0
    /\ newest = [n |-> 0, hospitals |-> <<>>, routes |-> <<>>]
    /\ ticks = 0
    /\ steps = MaxSteps - TrackerSteps

\* A step of the component or of the service it drives
Mounted ==
    /\ Budget
    /\ UNCHANGED <<routing, ranking, cancelled, held, revived>>

NextTracker ==
    \/ Mounted /\ commit
    \/ Mounted /\ startLocationTracking
    \/ Mounted /\ stopLocationTracking
    \/ \E position \in TrackerPositions :
           Mounted /\ started < MaxUpdates /\ successCallback(position)
    \/ \E i \in DOMAIN runs : \E response \in TrackerDirectory :
           Mounted /\ directoryResponds(i, response) /\ Resumed(i)
    \/ \E i \in DOMAIN runs : \E responses \in AnyRoutes(runs[i]) :
           Mounted /\ routesSettle(i, responses) /\ Resumed(i)
    \/ Mounted /\ timeoutFires
    \/ Mounted /\ toggleAutoRouting
    \/ Mounted /\ selectShortestRoute
    \/ \E hospital \in Clickable(tracker) : \E response \in Answers(tracker, hospital) :
           Mounted /\ selectHospitalRoute(hospital, response)

SpecTracker == InitTracker /\ [][NextTracker]_vars

---------------------------------------------------------------------------
(* A call of RoutingService.getMultipleRoutes (App.jsx:71-95) with its concurrent   *)
(* getRoute calls, which complete one at a time and in any order                     *)

\* The lists of destinations updateHospitals passes (App.jsx:306), from the map centre
RoutingDestinations ==
    {Slice(getFallbackHospitals(0, 0), n) : n \in 0..MaxDestinations} \cup
    {findNearbyHospitals(0, 0, Directory(<<Element1, Element2>>))}

\* What the provider can answer to one request of the call
RoutingAnswers(fromLat, fromLng, dest) ==
    RouteFailures \cup
    {ProviderRoute(fromLat, fromLng, dest.position[1], dest.position[2]),
     ProviderDetour(fromLat, fromLng, dest.position[1], dest.position[2])}

\* A step of the routing service alone, which has no state of its own
RoutingOnly ==
    /\ Silent
    /\ UNCHANGED <<devices, hospitals, hospitalRoutes, autoSelectShortestRoute, subscribers,
                   networkTopology, connections, emergencyMode, now, runs, timers,
                   started, newest, ticks, tracker, ranking, cancelled, held, revived>>

\* getMultipleRoutes up to its await: one getRoute call per destination is started
callGetMultipleRoutes(fromLat, fromLng, destinations) ==
    /\ routing.pc # "pending"
    /\ routing' = [pc |-> "pending", fromLat |-> fromLat, fromLng |-> fromLng,
                   destinations |-> destinations,
                   promises |-> [i \in DOMAIN destinations |-> [status |-> "pending"]],
                   answers |-> [i \in DOMAIN destinations |-> <<>>],
                   order |-> <<>>, result |-> <<>>]
    /\ lastOp' = <<"getMultipleRoutes">>
    /\ RoutingOnly

\* The getRoute call for destinations[index] gets the provider's answer and returns
getRouteReturns(index, response) ==
    /\ routing.pc = "pending"
    /\ routing.promises[index].status = "pending"
    /\ routing' = [routing EXCEPT
                     !.promises[index] = Settled(routing.fromLat, routing.fromLng,
                                                 routing.destinations[index], response),
                     !.answers[index] = <<response>>,
                     !.order = Append(@, index)]
    /\ lastOp' = <<"getRoute", index>>
    /\ RoutingOnly

\* Variant of allSettled that reads the outcomes in the order the calls completed: C19
\* must not survive it
allSettledInCompletionOrder ==
    /\ routing.pc = "pending"
    /\ \A i \in DOMAIN routing.promises : routing.promises[i].status # "pending"
    /\ routing' = [routing EXCEPT
                     !.pc = "returned",
                     !.result = Assemble(routing.destinations,
                                         [i \in DOMAIN routing.promises |->
                                            routing.promises[routing.order[i]]])]
    /\ lastOp' = <<"allSettled">>
    /\ RoutingOnly

\* Every promise has settled: Promise.allSettled resolves with the outcomes in the order
\* of its argument and getMultipleRoutes returns the map over the destinations
allSettled ==
    /\ routing.pc = "pending"
    /\ \A i \in DOMAIN routing.promises : routing.promises[i].status # "pending"
    /\ routing' = [routing EXCEPT
                     !.pc = "returned",
                     !.result = Assemble(routing.destinations, routing.promises)]
    /\ lastOp' = <<"allSettled">>
    /\ RoutingOnly

NextRouting ==
    \/ \E destinations \in RoutingDestinations :
           Budget /\ callGetMultipleRoutes(0, 0, destinations)
    \/ \E index \in DOMAIN routing.promises :
           \E response \in RoutingAnswers(routing.fromLat, routing.fromLng,
                                          routing.destinations[index]) :
               Budget /\ getRouteReturns(index, response)
    \/ Budget /\ allSettled

SpecRouting == Init /\ [][NextRouting]_vars

---------------------------------------------------------------------------
(* A call of WorkCentricHospitalService.findNearbyHospitals (App.jsx:100-167) on   *)
(* any answer of the directory                                                     *)

\* Where a record of the directory can lie: about 1.0, 3.3, 6.2 and 10.3 km from the
\* map centre, or nowhere (a record without resolvable coordinates)
ElementCenters == {<<>>, <<0, 1>>, <<1, 3>>, <<0, 6>>, <<-1, 10>>}

\* The records the directory can list in place k
ElementsAt(k) ==
    {[id |-> k, center |-> c, emergency |-> e, wheelchair |-> w, emergencyHours |-> h] :
        c \in ElementCenters, e \in BOOLEAN, w \in BOOLEAN, h \in BOOLEAN}

\* A list of seven records, more than updateHospitals asks routes for
LongList ==
    << [id |-> 1, center |-> <<0, 6>>, emergency |-> FALSE, wheelchair |-> FALSE,
        emergencyHours |-> FALSE],
       [id |-> 2, center |-> <<0, 1>>, emergency |-> TRUE, wheelchair |-> FALSE,
        emergencyHours |-> FALSE],
       [id |-> 3, center |-> <<1, 3>>, emergency |-> FALSE, wheelchair |-> TRUE,
        emergencyHours |-> FALSE],
       [id |-> 4, center |-> <<>>, emergency |-> TRUE, wheelchair |-> TRUE,
        emergencyHours |-> TRUE],
       [id |-> 5, center |-> <<-1, 10>>, emergency |-> TRUE, wheelchair |-> TRUE,
        emergencyHours |-> TRUE],
       [id |-> 6, center |-> <<1, 3>>, emergency |-> FALSE, wheelchair |-> FALSE,
        emergencyHours |-> TRUE],
       [id |-> 7, center |-> <<0, 1>>, emergency |-> FALSE, wheelchair |-> FALSE,
        emergencyHours |-> FALSE] >>

RankerResponses ==
    DirectoryFailures
    \cup {Directory(<<>>), Directory(LongList)}
    \cup {Directory(<<e1>>) : e1 \in ElementsAt(1)}
    \cup {Directory(<<e1, e2>>) : e1 \in ElementsAt(1), e2 \in ElementsAt(2)}

\* A step of the hospital service alone, which has no state of its own
RankerOnly ==
    /\ Silent
    /\ UNCHANGED <<devices, hospitals, hospitalRoutes, autoSelectShortestRoute, subscribers,
                   networkTopology, connections, emergencyMode, now, runs, timers,
                   started, newest, ticks, tracker, routing, cancelled, held, revived>>

\* findNearbyHospitals up to its await: the request is sent
callFindNearbyHospitals(latitude, longitude) ==
    /\ ranking.pc # "pending"
    /\ ranking' = [pc |-> "pending", latitude |-> latitude, longitude |-> longitude,
                   response |-> <<>>, result |-> <<>>]
    /\ lastOp' = <<"findNearbyHospitals">>
    /\ RankerOnly

\* The directory answers and findNearbyHospitals returns
directoryAnswers(response) ==
    /\ ranking.pc = "pending"
    /\ ranking' = [ranking EXCEPT
                     !.pc = "returned",
                     !.response = <<response>>,
                     !.result = findNearbyHospitals(ranking.latitude, ranking.longitude,
                                                    response)]
    /\ lastOp' = <<"directoryAnswers">>
    /\ RankerOnly

NextRanker ==
    \/ \E position \in Positions :
           Budget /\ callFindNearbyHospitals(position[1], position[2])
    \/ \E response \in RankerResponses : Budget /\ directoryAnswers(response)

SpecRanker == Init /\ [][NextRanker]_vars

---------------------------------------------------------------------------
(* The refresh pipeline alone: updateHospitals (App.jsx:302-319) called with a      *)
(* position, up to MaxUpdates calls that may overlap, on a directory that fails,     *)
(* lists nothing, two records or seven, and a provider that answers or fails each    *)
(* request                                                                           *)

PipelineDirectory ==
    {DirectoryFailure, EmptyDirectory, Directory(<<Element1, Element2>>),
     Directory(LongList)}

NextPipeline ==
    \/ \E position \in Positions :
           Host /\ started < MaxUpdates /\ updateHospitals(position[1], position[2])
    \/ \E i \in DOMAIN runs : \E response \in PipelineDirectory :
           Host /\ directoryResponds(i, response)
    \/ \E i \in DOMAIN runs : \E responses \in AnyRoutes(runs[i]) :
           Host /\ routesSettle(i, responses)

SpecPipeline == Init /\ [][NextPipeline]_vars

---------------------------------------------------------------------------
(* The location pipeline to its end: the host makes up to LiveSteps calls, and every *)
(* request that was sent is answered, every timer that was set fires                 *)

\* The service after subscribe(1), registerDevice(1) and registerDevice(2)
InitLive ==
    /\ tracker = TrackerDefaults
    /\ routing = NoCall
    /\ ranking = NoRanking
    /\ cancelled = {}
    /\ held = <<>>
    /\ revived = {}
    /\ devices = [i \in 1..2 |->
                    [id |-> i, position |-> <<>>, lastUpdate |-> <<>>, isOnline |-> TRUE,
                     workRole |-> "worker", emergencyResponder |-> FALSE]]
    /\ hospitals = <<>>
    /\ hospitalRoutes = <<>>
    /\ autoSelectShortestRoute = <<>>
    /\ subscribers = {1}
    /\ networkTopology = "emergency"
    /\ connections = <<>>
    /\ emergencyMode = FALSE
    /\ now = 0
    /\ runs = <<>>
    /\ timers = 0
    /\ published = <<>>
    /\ notified = {}
    /\ lastOp = <<"registerDevice", 2>>
    /\ started = 0
    /\ newest = [n |-> 0, hospitals |-> <<>>, routes |-> <<>>]
    /\ ticks = 0
    /\ steps = MaxSteps - LiveSteps

\* A continuation or a timer callback: the event loop runs it, the host makes no call
Resume == UNCHANGED <<steps, tracker, routing, ranking, cancelled, held, revived>>

Responds ==
    \E i \in DOMAIN runs : \E response \in {DirectoryFailure, EmptyDirectory} :
        Resume /\ directoryResponds(i, response)

Settles ==
    \E i \in DOMAIN runs : \E responses \in AllDown(runs[i]) :
        Resume /\ routesSettle(i, responses)

Fires == Resume /\ timerFires

NextLive ==
    \/ \E deviceId \in DeviceIds : \E position \in Positions :
           Host /\ started < MaxUpdates /\ updateDeviceLocation(deviceId, position)
    \/ \E deviceId \in DeviceIds : Host /\ removeDevice(deviceId)
    \/ Host /\ markOfflineIfStale
    \/ \E ms \in TickSteps : Host /\ tick(ms)
    \/ Responds
    \/ Settles
    \/ Fires

\* A directory request is in flight: Responds is enabled
RespondsEnabled == \E i \in DOMAIN runs : runs[i].pc = "directory"

\* The routing requests of a run are in flight: Settles is enabled
SettlesEnabled == \E i \in DOMAIN runs : runs[i].pc = "routes"

\* Every timer fires and every request gets its answer: weak fairness of Fires, Responds
\* and Settles.  For the last two WF_vars(A) is written out as
\* []<>~ENABLED <<A>>_vars \/ []<><<A>>_vars, with the state predicate that ENABLED
\* amounts to and the operation name that only a step of A leaves in lastOp.
SpecLive ==
    /\ InitLive
    /\ [][NextLive]_vars
    /\ WF_vars(Fires)
    /\ ([]<>~RespondsEnabled) \/ ([]<><<lastOp'[1] = "directoryResponds">>_vars)
    /\ ([]<>~SettlesEnabled) \/ ([]<><<lastOp'[1] = "routesSettle">>_vars)

---------------------------------------------------------------------------
(* Several subscribers: callbacks are added and removed while the location pipeline
   publishes and its delayed notify is pending *)

Listeners == 1..MaxListeners

\* What an operation leaves of the subscriptions.  cancelled: the callbacks removed by
\* the function subscribe returned (App.jsx:424) and not added again since, each with
\* the number of delayed notifies that were pending when it was removed.
Listening ==
    /\ cancelled' =
           IF lastOp'[1] = "unsubscribe"
           THEN {c \in cancelled : c[1] # lastOp'[2]} \cup {<<lastOp'[2], timers>>}
           ELSE IF lastOp'[1] = "subscribe"
           THEN {c \in cancelled : c[1] # lastOp'[2]}
           ELSE cancelled
    /\ UNCHANGED <<tracker, routing, ranking, held, revived>>

NextListeners ==
    \/ \E callback \in Listeners : Budget /\ subscribe(callback) /\ Listening
    \/ \E callback \in Listeners : Budget /\ unsubscribe(callback) /\ Listening
    \/ Budget /\ registerDevice(MyDeviceId, "worker") /\ Listening
    \/ \E position \in Positions :
           /\ Budget
           /\ started < MaxUpdates
           /\ updateDeviceLocation(MyDeviceId, position)
           /\ Listening
    \/ \E i \in DOMAIN runs, response \in {DirectoryFailure, EmptyDirectory} :
           Budget /\ directoryResponds(i, response) /\ Listening
    \/ \E i \in DOMAIN runs : \E responses \in AllDown(runs[i]) :
           Budget /\ routesSettle(i, responses) /\ Listening
    \/ Budget /\ timerFires /\ Listening
    \/ Budget /\ removeDevice(MyDeviceId) /\ Listening

SpecListeners == Init /\ [][NextListeners]_vars

---------------------------------------------------------------------------
(* What a subscriber holds: the object it was handed last, read again after every
   operation *)

\* The object of the last delivery as it reads after the step.  notifySubscribers puts
\* into it the device objects of the registry (Array.from(this.devices.values())), the
\* arrays this.connections, this.hospitals, this.hospitalRoutes and the object
\* this.workContext themselves (App.jsx:428-438).  Of held:
\*   delivered: the object as it read when the callback was invoked;
\*   alias: the ids whose device object in it is still the registry's (registerDevice
\*          puts a new object under the id, removeDevice takes the object out);
\*   seen: the object as it reads now: a device object of alias reads as the registry's,
\*         workContext reads as this.workContext; the arrays are replaced by assignment
\*         (App.jsx:304, 313, 333-347), never written in place, and read as delivered.
Kept ==
    LET delivers == notified' # {}
        base == IF delivers THEN published'[1] ELSE held.seen
        alias == IF delivers
                 THEN {base.devices[k].id : k \in DOMAIN base.devices}
                 ELSE {id \in held.alias :
                          Has(devices', id) /\ lastOp' # <<"registerDevice", id>>}
    IN  held' = IF ~delivers /\ held = <<>>
                THEN <<>>
                ELSE [delivered |-> IF delivers THEN published'[1] ELSE held.delivered,
                      alias     |-> alias,
                      seen      |-> [base EXCEPT
                                        !.devices = [k \in DOMAIN base.devices |->
                                            IF base.devices[k].id \in alias
                                            THEN Get(devices', base.devices[k].id)
                                            ELSE base.devices[k]],
                                        !.workContext.emergencyMode = emergencyMode']]

\* An operation of the host or a continuation, and what it leaves of the held object
Holding ==
    /\ Kept
    /\ UNCHANGED <<tracker, routing, ranking, cancelled, revived>>

NextHeld ==
    \/ \E deviceId \in DeviceIds : Budget /\ registerDevice(deviceId, "worker") /\ Holding
    \/ \E deviceId \in DeviceIds : \E position \in Positions :
           /\ Budget
           /\ started < MaxUpdates
           /\ updateDeviceLocation(deviceId, position)
           /\ Holding
    \/ \E i \in DOMAIN runs, response \in {DirectoryFailure, EmptyDirectory} :
           Budget /\ directoryResponds(i, response) /\ Holding
    \/ \E i \in DOMAIN runs : \E responses \in AllDown(runs[i]) :
           Budget /\ routesSettle(i, responses) /\ Holding
    \/ Budget /\ timerFires /\ Holding
    \/ \E deviceId \in DeviceIds : Budget /\ removeDevice(deviceId) /\ Holding
    \/ \E enabled \in BOOLEAN : Budget /\ setEmergencyMode(enabled) /\ Holding
    \/ Budget /\ markOfflineIfStale /\ Holding
    \/ \E ms \in TickSteps : Budget /\ tick(ms) /\ Holding

SpecHeld == InitLive /\ [][NextHeld]_vars

---------------------------------------------------------------------------
(* Devices that went stale report again: the sweep, the location update of a device it
   marked offline and the rebuild at the end of that update, with every request
   answered and every timer fired *)

\* The service after subscribe(1), registerDevice(1), registerDevice(2) and, at time 0,
\* updateDeviceLocation(1, <<0, 0>>) and updateDeviceLocation(2, <<0, 2>>), for which the
\* directory found nothing and whose timers fired, StaleTimeoutMs + 1 ms later.  The
\* histories (started, ticks, steps) count from this state on.
InitRevive ==
    /\ tracker = TrackerDefaults
    /\ routing = NoCall
    /\ ranking = NoRanking
    /\ cancelled = {}
    /\ held = <<>>
    /\ revived = {}
    /\ devices = <<[id |-> 1, position |-> <<0, 0>>, lastUpdate |-> <<0>>, isOnline |-> TRUE,
                    workRole |-> "worker", emergencyResponder |-> FALSE],
                   [id |-> 2, position |-> <<0, 2>>, lastUpdate |-> <<0>>, isOnline |-> TRUE,
                    workRole |-> "worker", emergencyResponder |-> FALSE]>>
    /\ hospitals = <<>>
    /\ hospitalRoutes = <<>>
    /\ autoSelectShortestRoute = <<>>
    /\ subscribers = {1}
    /\ networkTopology = "emergency"
    /\ connections = <<>>
    /\ emergencyMode = FALSE
    /\ now = StaleTimeoutMs + 1
    /\ runs = <<>>
    /\ timers = 0
    /\ published = <<>>
    /\ notified = {}
    /\ lastOp = <<"tick">>
    /\ started = 0
    /\ newest = [n |-> 0, hospitals |-> <<>>, routes |-> <<>>]
    /\ ticks = 0
    /\ steps = MaxSteps - ReviveSteps

\* What a location update leaves of the histories.  revived: the calls of
\* updateDeviceLocation, by number and device, that found their device with
\* isOnline = false, which only the sweep sets (App.jsx:461).
Reviving ==
    /\ revived' = IF /\ Has(devices, lastOp'[2])
                     /\ ~Get(devices, lastOp'[2]).isOnline
                  THEN revived \cup {<<started', lastOp'[2]>>}
                  ELSE revived
    /\ UNCHANGED <<tracker, routing, ranking, cancelled, held>>

NextRevive ==
    \/ Host /\ markOfflineIfStale
    \/ \E deviceId \in DeviceIds : \E position \in Positions :
           /\ Budget
           /\ started < MaxUpdates
           /\ updateDeviceLocation(deviceId, position)
           /\ Reviving
    \/ \E deviceId \in DeviceIds : Host /\ removeDevice(deviceId)
    \/ \E deviceId \in DeviceIds : Host /\ registerDevice(deviceId, "worker")
    \/ Host /\ tick(StaleTimeoutMs + 1)
    \/ Responds
    \/ Settles
    \/ Fires

\* Every timer fires and every request gets its answer, as in SpecLive
SpecRevive ==
    /\ InitRevive
    /\ [][NextRevive]_vars
    /\ WF_vars(Fires)
    /\ ([]<>~RespondsEnabled) \/ ([]<><<lastOp'[1] = "directoryResponds">>_vars)
    /\ ([]<>~SettlesEnabled) \/ ([]<><<lastOp'[1] = "routesSettle">>_vars)

---------------------------------------------------------------------------
(* Claims *)

Ids(devs) == {devs[i].id : i \in DOMAIN devs}

\* The last step ran updateNetworkTopology
Rebuilt ==
    \/ lastOp[1] \in {"registerDevice", "removeDevice", "setNetworkTopology", "setEmergencyMode"}
    \/ lastOp[1] = "markOfflineIfStale" /\ published # <<>>
    \/ lastOp[1] = "routesSettle" /\ lastOp[3] = "updateDeviceLocation"
    \/ lastOp[1] = "directoryResponds" /\ lastOp[3] = "updateDeviceLocation" /\ published # <<>>

\* C1: every snapshot delivered to a subscriber is internally consistent: its
\* connections and device roles are what a topology rebuild yields from the devices,
\* hospitals and topology mode of that same snapshot.
C1_SnapshotConsistent ==
    \A k \in DOMAIN published :
        notified # {} =>
            LET s == published[k]
                rebuilt == updateNetworkTopology(s.devices, s.hospitals, s.topology)
            IN  /\ s.connections = rebuilt.connections
                /\ s.devices = rebuilt.devices

\* C2: results of an older updateHospitals run never replace those of a newer one: once
\* no run is in flight, the stored hospitals are those the run started last obtained,
\* and so are the routes and the auto-selected route whenever it found facilities.
C2_NewestRunWins ==
    (runs = <<>> /\ started > 0) =>
        /\ hospitals = newest.hospitals
        /\ (newest.hospitals # <<>> =>
               /\ hospitalRoutes = newest.routes
               /\ autoSelectShortestRoute = <<newest.routes[1]>>)

\* C3: every topology-mode change (setNetworkTopology, setEmergencyMode) publishes, as
\* part of the call, a snapshot with the new mode and the rebuilt connections to every
\* current subscriber.
C3_ModeChangePublishes ==
    lastOp[1] \in {"setNetworkTopology", "setEmergencyMode"} =>
        /\ Len(published) = 1
        /\ notified = subscribers
        /\ published[1].topology = networkTopology
        /\ published[1].connections = connections

\* C4: every registerDevice call publishes a snapshot that contains the new device to
\* every current subscriber.
C4_RegisterPublishes ==
    lastOp[1] = "registerDevice" =>
        /\ Len(published) = 1
        /\ notified = subscribers
        /\ lastOp[2] \in Ids(published[1].devices)

\* C5: removeDevice(id) deletes the device, rebuilds the topology and publishes to every
\* subscriber a snapshot of the result, in which the device is not in the device list
\* and is an endpoint of no connection.
C5_RemovePublishesWithoutDevice ==
    lastOp[1] = "removeDevice" =>
        /\ lastOp[2] \notin Ids(devices)
        /\ Len(published) = 1
        /\ notified = subscribers
        /\ published[1].devices = devices
        /\ published[1].connections = connections
        /\ published[1].topology = networkTopology
        /\ lastOp[2] \notin Ids(published[1].devices)
        /\ \A k \in DOMAIN published[1].connections :
               /\ published[1].connections[k].from # lastOp[2]
               /\ published[1].connections[k].to # lastOp[2]
               /\ published[1].connections[k].from \in Ids(published[1].devices)
               /\ published[1].connections[k].to \in Ids(published[1].devices)

\* The hub of an emergency star was removed and the devices left are connected again
C5_Witness ==
    /\ lastOp[1] = "removeDevice"
    /\ lastOp[3] = "hub"
    /\ notified # {}
    /\ published # <<>>
    /\ published[1].connections # <<>>

\* C6: markOfflineIfStale publishes a snapshot if and only if the sweep turned at least
\* one device from online to offline; a sweep that turns none publishes nothing and
\* leaves the devices and the connections as they were.
C6_SweepPublishesIffFlipped ==
    [][lastOp'[1] = "markOfflineIfStale" =>
         LET flipped == {i \in DOMAIN devices : devices[i].isOnline /\ ~devices'[i].isOnline}
         IN  /\ DOMAIN devices' = DOMAIN devices
             /\ (published' # <<>>) <=> (flipped # {})
             /\ (flipped = {}) => (connections' = connections /\ devices' = devices)
             /\ (published' # <<>>) =>
                    /\ notified' = subscribers
                    /\ published'[1].devices = devices'
                    /\ published'[1].connections = connections']_vars

\* A silent sweep that found a stale device, already offline since an earlier sweep
C6_Witness ==
    /\ lastOp[1] = "markOfflineIfStale"
    /\ published = <<>>
    /\ \E i \in DOMAIN devices :
           /\ ~devices[i].isOnline
           /\ devices[i].lastUpdate # <<>>
           /\ now - devices[i].lastUpdate[1] > 30000

\* C7: a sweep at time now turns offline exactly the devices that have a lastUpdate with
\* now - lastUpdate > 30000 ms; every other device, also one that never reported a
\* position, keeps its isOnline, and no device's position or lastUpdate changes.
C7_SweepMarksExactlyStale ==
    [][lastOp'[1] = "markOfflineIfStale" =>
         /\ DOMAIN devices' = DOMAIN devices
         /\ \A i \in DOMAIN devices :
                /\ devices'[i].id = devices[i].id
                /\ devices'[i].position = devices[i].position
                /\ devices'[i].lastUpdate = devices[i].lastUpdate
                /\ devices'[i].isOnline =
                       (/\ devices[i].isOnline
                        /\ ~(/\ devices[i].lastUpdate # <<>>
                             /\ now - devices[i].lastUpdate[1] > 30000))]_vars

\* After a sweep, a device 30001 ms old is offline and one exactly 30000 ms old is online
C7_Witness ==
    /\ lastOp[1] = "markOfflineIfStale"
    /\ \E i, j \in DOMAIN devices :
           /\ devices[i].lastUpdate # <<>>
           /\ now - devices[i].lastUpdate[1] = 30001
           /\ ~devices[i].isOnline
           /\ devices[j].lastUpdate # <<>>
           /\ now - devices[j].lastUpdate[1] = 30000
           /\ devices[j].isOnline

\* C8: updateDeviceLocation with an id that is not in the registry changes nothing,
\* starts no directory or routing call and publishes nothing; and no location update,
\* nor any continuation of one, adds a device to the registry.
C8_UnknownDeviceNoOp ==
    [][/\ (lastOp'[1] = "updateDeviceLocation" /\ lastOp'[2] \notin Ids(devices)) =>
              /\ UNCHANGED <<devices, hospitals, hospitalRoutes, autoSelectShortestRoute,
                             connections, runs, timers, subscribers, networkTopology,
                             emergencyMode>>
              /\ published' = <<>>
              /\ notified' = {}
       /\ lastOp'[1] \in {"updateDeviceLocation", "directoryResponds", "routesSettle",
                          "timerFires"} =>
              Ids(devices') = Ids(devices)]_vars

\* A location update for a device that was removed while its earlier update is in flight
C8_Witness ==
    /\ lastOp[1] = "updateDeviceLocation"
    /\ lastOp[2] \notin Ids(devices)
    /\ \E k \in DOMAIN runs : runs[k].device = <<lastOp[2]>>

\* Both endpoints of every connection of `conns` are devices of `devs` that are online
\* and have a position
EndpointsLive(conns, devs) ==
    \A k \in DOMAIN conns :
        \A id \in {conns[k].from, conns[k].to} :
            \E i \in DOMAIN devs :
                /\ devs[i].id = id
                /\ devs[i].isOnline
                /\ devs[i].position # <<>>

\* C9: in every published snapshot, and in the service's state, both endpoints of every
\* connection are registered devices that are online and have a position; and a device
\* that a step promotes to responder is online and has a position.
C9_EndpointsLive ==
    /\ [](/\ EndpointsLive(connections, devices)
          /\ \A k \in DOMAIN published :
                 EndpointsLive(published[k].connections, published[k].devices))
    /\ [][\A i \in DOMAIN devices' :
              (/\ devices'[i].emergencyResponder
               /\ \A j \in DOMAIN devices :
                      devices[j].id = devices'[i].id => ~devices[j].emergencyResponder)
              => (devices'[i].isOnline /\ devices'[i].position # <<>>)]_vars

\* A sweep turned a device offline and published a snapshot in which the devices still
\* online are connected
C9_Witness ==
    /\ lastOp[1] = "markOfflineIfStale"
    /\ notified # {}
    /\ published # <<>>
    /\ published[1].connections # <<>>
    /\ \E i \in DOMAIN published[1].devices :
           /\ ~published[1].devices[i].isOnline
           /\ published[1].devices[i].position # <<>>

\* C10: after every topology rebuild exactly one device has emergencyResponder = TRUE,
\* with workRole "emergency-responder", when at least one online positioned device and
\* at least one facility exist, and no device has it otherwise.
C10_ExactlyOneResponder ==
    Rebuilt =>
        LET live == {i \in DOMAIN devices : devices[i].isOnline /\ devices[i].position # <<>>}
            responders == {i \in DOMAIN devices : devices[i].emergencyResponder}
        IN  IF live # {} /\ hospitals # <<>>
            THEN /\ Cardinality(responders) = 1
                 /\ \A i \in responders : devices[i].workRole = "emergency-responder"
            ELSE responders = {}

\* The ids of the devices of `devs` that are online and have a position
LiveIds(devs) == {devs[i].id : i \in {j \in DOMAIN devs : devs[j].isOnline /\ devs[j].position # <<>>}}

\* Great-circle distance from the device `id` of `devs` to the facility h
ToFacility(devs, id, h) ==
    LET d == devs[CHOOSE i \in DOMAIN devs : devs[i].id = id]
    IN  haversine(d.position[1], d.position[2], h.position[1], h.position[2])

\* C11: after a rebuild in emergency mode with n >= 2 online positioned devices and at
\* least one facility there are exactly n - 1 connections, all flagged isEmergencyPath,
\* all from one hub to the n - 1 other online devices, and no online device is closer to
\* hospitals[0] than the hub; with no facility there are no connections.
C11_EmergencyStar ==
    (Rebuilt /\ networkTopology = "emergency") =>
        LET live == LiveIds(devices)
        IN  /\ (Cardinality(live) >= 2 /\ hospitals # <<>>) =>
                   /\ Len(connections) = Cardinality(live) - 1
                   /\ \A k \in DOMAIN connections :
                          /\ "isEmergencyPath" \in DOMAIN connections[k]
                          /\ connections[k].isEmergencyPath = TRUE
                   /\ \E hub \in live :
                          /\ \A k \in DOMAIN connections : connections[k].from = hub
                          /\ {connections[k].to : k \in DOMAIN connections} = live \ {hub}
                          /\ \A id \in live : ToFacility(devices, hub, hospitals[1])
                                                 <= ToFacility(devices, id, hospitals[1])
            /\ (hospitals = <<>>) => (connections = <<>>)

\* setEmergencyMode(true) has built an emergency star over three or more devices whose
\* hub is not the first of them
C11_Witness ==
    /\ lastOp = <<"setEmergencyMode", TRUE>>
    /\ networkTopology = "emergency"
    /\ Len(connections) >= 2
    /\ \E i \in DOMAIN devices :
           /\ devices[i].isOnline /\ devices[i].position # <<>>
           /\ devices[i].id # connections[1].from
           /\ \A j \in 1..(i - 1) : devices[j].position = <<>>
           /\ ToFacility(devices, devices[i].id, hospitals[1])
                  > ToFacility(devices, connections[1].from, hospitals[1])

\* C12: after every rebuild in emergency mode that yields connections, the device every
\* connection starts from is the device that role assignment promoted: it has
\* emergencyResponder = TRUE and workRole "emergency-responder", also when several
\* devices are equally close to hospitals[0].
C12_HubIsResponder ==
    (Rebuilt /\ networkTopology = "emergency" /\ connections # <<>>) =>
        \A k \in DOMAIN connections :
            \E i \in DOMAIN devices :
                /\ devices[i].id = connections[k].from
                /\ devices[i].emergencyResponder
                /\ devices[i].workRole = "emergency-responder"

\* setEmergencyMode(true) has built a star whose hub has a rival at the same distance
\* from hospitals[0]
C12_Witness ==
    /\ lastOp = <<"setEmergencyMode", TRUE>>
    /\ connections # <<>>
    /\ \E id \in LiveIds(devices) :
           /\ id # connections[1].from
           /\ ToFacility(devices, id, hospitals[1])
                  = ToFacility(devices, connections[1].from, hospitals[1])

\* C13: whenever fewer than 2 devices are online and positioned, a rebuild leaves the
\* connection list empty, in every topology mode and with any number of facilities.
C13_FewerThanTwoNoConnections ==
    (Rebuilt /\ Cardinality(LiveIds(devices)) < 2) => connections = <<>>

\* removeDevice took an endpoint of a connection away, one online positioned device is
\* left and the connection is gone
C13_Witness ==
    /\ lastOp[1] = "removeDevice"
    /\ lastOp[3] \in {"hub", "endpoint"}
    /\ Cardinality(LiveIds(devices)) = 1
    /\ connections = <<>>

\* C14: after a rebuild in mst mode over n online positioned devices there are at most
\* max(0, n - 1) connections.
C14_MstAtMostNMinusOne ==
    (Rebuilt /\ networkTopology = "mst") =>
        LET n == Cardinality(LiveIds(devices))
        IN  Len(connections) <= (IF n >= 1 THEN n - 1 ELSE 0)

\* In mst mode removeDevice has rebuilt n - 1 connections over the n >= 3 devices left
C14_Witness ==
    /\ lastOp[1] = "removeDevice"
    /\ networkTopology = "mst"
    /\ Cardinality(LiveIds(devices)) >= 3
    /\ Len(connections) = Cardinality(LiveIds(devices)) - 1

\* 100 - 10 * distance, plus 20 for each of the first three facilities that is less
\* than 2 km from either device (in millionths), for the devices a and b of `devs`
PairScore(devs, hosp, a, b) ==
    LET top == {k \in DOMAIN hosp : k <= 3}
        near == {k \in top : \/ ToFacility(devs, a, hosp[k]) < 2000000
                              \/ ToFacility(devs, b, hosp[k]) < 2000000}
        da == devs[CHOOSE i \in DOMAIN devs : devs[i].id = a]
        db == devs[CHOOSE i \in DOMAIN devs : devs[i].id = b]
    IN  100000000
        - 10 * haversine(da.position[1], da.position[2], db.position[1], db.position[2])
        + 20000000 * Cardinality(near)

\* C15: after a rebuild in work-optimal mode over n >= 2 online positioned devices there
\* are min(n(n-1)/2, 2n) connections; each joins two distinct online devices and carries
\* that pair's workScore, no unordered pair occurs twice, the list is in non-increasing
\* workScore order, and no pair left out scores higher than a pair kept.
C15_WorkOptimalTopPairs ==
    (Rebuilt /\ networkTopology = "work-optimal" /\ Cardinality(LiveIds(devices)) >= 2) =>
        LET live == LiveIds(devices)
            n == Cardinality(live)
            kept == {{connections[k].from, connections[k].to} : k \in DOMAIN connections}
        IN  /\ Len(connections) = Min((n * (n - 1)) \div 2, 2 * n)
            /\ \A k \in DOMAIN connections :
                   /\ connections[k].from # connections[k].to
                   /\ {connections[k].from, connections[k].to} \subseteq live
                   /\ connections[k].workScore =
                          PairScore(devices, hospitals, connections[k].from, connections[k].to)
            /\ Cardinality(kept) = Len(connections)
            /\ \A k \in 1..(Len(connections) - 1) :
                   connections[k].workScore >= connections[k + 1].workScore
            /\ \A a \in live, b \in live :
                   (a # b /\ {a, b} \notin kept) =>
                       \A k \in DOMAIN connections :
                           PairScore(devices, hospitals, a, b) <= connections[k].workScore

\* In work-optimal mode a rebuild over six devices kept 12 of the 15 pairs, and a pair
\* left out scores strictly lower than the last pair kept
C15_Witness ==
    /\ lastOp = <<"setEmergencyMode", FALSE>>
    /\ networkTopology = "work-optimal"
    /\ Cardinality(LiveIds(devices)) = 6
    /\ Len(connections) = 12
    /\ \E a \in LiveIds(devices), b \in LiveIds(devices) :
           /\ a # b
           /\ \A k \in DOMAIN connections : {connections[k].from, connections[k].to} # {a, b}
           /\ PairScore(devices, hospitals, a, b) < connections[12].workScore

\* C16: when the topology mode is none of "emergency", "work-optimal" and "mst", a
\* rebuild leaves exactly the connections and the roles that a rebuild in emergency
\* mode yields for the same devices and facilities.
C16_UnknownModeIsEmergency ==
    (Rebuilt /\ networkTopology \notin {"emergency", "work-optimal", "mst"}) =>
        /\ connections = updateNetworkTopology(devices, hospitals, "emergency").connections
        /\ devices = updateNetworkTopology(devices, hospitals, "emergency").devices

\* In the mode "ring" removeDevice has rebuilt a star of at least two connections
C16_Witness ==
    /\ lastOp[1] = "removeDevice"
    /\ networkTopology = "ring"
    /\ Len(connections) >= 2
    /\ \A k \in DOMAIN connections : IsEmergencyPath(connections[k])

\* The subscribed callback is the one of the current render
EffectCurrent ==
    tracker.effect = [selectedRoute |-> tracker.selectedRoute,
                      autoRouting |-> tracker.autoRouting]

\* C17: in auto-routing mode, a snapshot that arrives changes the selected route only to
\* the snapshot's highest-urgency route, and only if no route was selected or that route
\* has a strictly shorter roadDistance than the selected one; in every other case the
\* selection stays as it was.
C17_AutoReplacesOnlyIfAbsentOrShorter ==
    [][(TrackerCallback \in notified' /\ tracker.autoRouting /\ EffectCurrent
        /\ tracker'.selectedRoute # tracker.selectedRoute)
       => LET candidate == published'[1].shortestRoute
          IN  /\ candidate # <<>>
              /\ tracker'.selectedRoute = candidate
              /\ \/ tracker.selectedRoute = <<>>
                 \/ candidate[1].roadDistance < tracker.selectedRoute[1].roadDistance]_vars

\* C18: in manual mode the selected route changes only in selectShortestRoute and
\* selectHospitalRoute: no other step, a published snapshot or a location update,
\* changes it, also when no route is selected.
C18_ManualChangesOnlyByUser ==
    [][(~tracker.autoRouting /\ EffectCurrent
        /\ lastOp'[1] \notin {"selectShortestRoute", "selectHospitalRoute"})
       => tracker'.selectedRoute = tracker.selectedRoute]_vars

\* The polyline the provider's first route describes, as [lat, lon] pairs
Polyline(response) ==
    [i \in DOMAIN response.routes[1].geometry |->
       <<response.routes[1].geometry[i][2], response.routes[1].geometry[i][1]>>]

\* C19: a call of getMultipleRoutes that has returned gives exactly one ranked route per
\* destination, in the destinations' order, whatever each request got and in whatever
\* order the requests completed: the route of a destination whose request failed is the
\* straight line with its great-circle distance and twice that as duration, the route
\* of every other destination has the distance, duration and polyline of the first
\* route its own request got.
C19_OneRoutePerDestination ==
    routing.pc = "returned" =>
        /\ Len(routing.result) = Len(routing.destinations)
        /\ \A i \in DOMAIN routing.destinations :
               LET dest == routing.destinations[i]
                   ranked == routing.result[i]
                   answer == routing.answers[i][1]
                   direct == haversine(routing.fromLat, routing.fromLng,
                                       dest.position[1], dest.position[2])
               IN  /\ ranked.id = dest.id
                   /\ ranked.position = dest.position
                   /\ ranked.route # <<>>
                   /\ IF answer \in RouteFailures
                      THEN /\ ranked.route[1].isFallback
                           /\ ranked.route[1].coordinates =
                                  <<<<routing.fromLat, routing.fromLng>>, dest.position>>
                           /\ ranked.roadDistance = direct
                           /\ ranked.estimatedTime = 2 * direct
                      ELSE /\ ~ranked.route[1].isFallback
                           /\ ranked.route[1].coordinates = Polyline(answer)
                           /\ ranked.roadDistance = answer.routes[1].distance * 1000
                           /\ ranked.estimatedTime =
                                  (answer.routes[1].duration * 1000000) \div 60

\* A call over three destinations has returned; the requests completed in an order
\* other than the destinations', one failed and two got routes of different lengths
C19_Witness ==
    /\ routing.pc = "returned"
    /\ lastOp = <<"allSettled">>
    /\ Len(routing.destinations) = 3
    /\ routing.order = <<3, 1, 2>>
    /\ routing.answers[2][1] \in RouteFailures
    /\ routing.answers[1][1] \notin RouteFailures
    /\ routing.answers[3][1] \notin RouteFailures
    /\ routing.result[1].roadDistance # routing.result[3].roadDistance

\* C20: a call of getRoute always returns (its promise is fulfilled, never rejected); when
\* the request met a network error, a non-success status or an empty list of routes, the
\* route returned has isFallback set, the polyline [origin, destination], the
\* great-circle distance as distance and exactly twice the distance as duration.
C20_GetRouteFallsBack ==
    \A i \in DOMAIN routing.promises :
        routing.promises[i].status # "pending" =>
            /\ routing.promises[i].status = "fulfilled"
            /\ routing.answers[i][1] \in RouteFailures =>
                   LET route == routing.promises[i].value
                       dest == routing.destinations[i]
                   IN  /\ route.isFallback
                       /\ route.coordinates =
                              <<<<routing.fromLat, routing.fromLng>>, dest.position>>
                       /\ route.distance = haversine(routing.fromLat, routing.fromLng,
                                                     dest.position[1], dest.position[2])
                       /\ route.distance > 0
                       /\ route.duration = 2 * route.distance

\* The three getRoute calls of one getMultipleRoutes call have returned: one met a
\* network error, one a non-success status and one an empty list of routes
C20_Witness ==
    /\ lastOp[1] = "getRoute"
    /\ Len(routing.promises) = 3
    /\ \A i \in DOMAIN routing.promises : routing.promises[i].status = "fulfilled"
    /\ {routing.answers[i][1] : i \in DOMAIN routing.answers} = RouteFailures

\* C21: a call of findNearbyHospitals always returns a list; when the directory call
\* failed (rejected fetch, non-success status or unreadable body) the list is exactly the
\* four synthetic facilities, two with emergency set and workPriority 10 followed by two
\* without and workPriority 5; when the directory answered with no elements the list is
\* empty.
C21_FallbackOnFailureOnly ==
    ranking.pc = "returned" =>
        LET response == ranking.response[1]
            result == ranking.result
        IN  /\ response \in DirectoryFailures =>
                   /\ Len(result) = 4
                   /\ \A i \in 1..2 : result[i].emergency /\ result[i].workPriority = 10
                   /\ \A i \in 3..4 : ~result[i].emergency /\ result[i].workPriority = 5
                   /\ \A i \in 1..4 : result[i].id[1] = "fallback-hospital"
                   /\ Cardinality({result[i].id : i \in 1..4}) = 4
            /\ (response \notin DirectoryFailures /\ response.elements = <<>>) =>
                   result = <<>>

\* A call answered by an unreadable body has returned the fallback set
C21_Witness ==
    /\ ranking.pc = "returned"
    /\ lastOp = <<"directoryAnswers">>
    /\ ranking.response = <<DirectoryMalformed>>
    /\ Len(ranking.result) = 4

\* C22: every list findNearbyHospitals returns is sorted: of two adjacent entries the first
\* has the greater workPriority, or the same workPriority and a distance not greater than
\* the second's.
C22_RankingSorted ==
    ranking.pc = "returned" =>
        \A i \in 1..(Len(ranking.result) - 1) :
            LET x == ranking.result[i]
                y == ranking.result[i + 1]
            IN  \/ x.workPriority > y.workPriority
                \/ x.workPriority = y.workPriority /\ x.distance <= y.distance

\* What C28 says the priority of a record at `distance` is
PriorityOf(element, distance) ==
    (IF element.emergency THEN 10 ELSE 0)
    + (IF element.wheelchair THEN 5 ELSE 0)
    + (IF element.emergencyHours THEN 3 ELSE 0)
    + CASE distance < TwoKm -> 8
        [] distance >= TwoKm /\ distance < FiveKm -> 5
        [] distance >= FiveKm /\ distance < TenKm -> 2
        [] OTHER -> 0

\* C28: every entry of a ranking built from the directory's records has the workPriority
\* of its record: 10 if emergency-capable, plus 5 if wheelchair-accessible, plus 3 if
\* emergency hours are published, plus one proximity bonus (8 under 2 km, else 5 under
\* 5 km, else 2 under 10 km, else 0); it is an integer from 0 to 26.
C28_WorkPriority ==
    (ranking.pc = "returned" /\ ranking.response[1] \notin DirectoryFailures) =>
        \A i \in DOMAIN ranking.result :
            LET entry == ranking.result[i]
            IN  /\ entry.workPriority \in 0..26
                /\ \E k \in DOMAIN ranking.response[1].elements :
                       LET element == ranking.response[1].elements[k]
                       IN  /\ entry.id = HospitalId(element.id)
                           /\ element.center # <<>>
                           /\ entry.distance = haversine(ranking.latitude, ranking.longitude,
                                                         element.center[1], element.center[2])
                           /\ entry.workPriority = PriorityOf(element, entry.distance)

\* A ranking of two records has been returned: one with every tag and nearer than 2 km,
\* of priority 26, and one without tags and farther than 10 km, of priority 0
C28_Witness ==
    /\ ranking.pc = "returned"
    /\ lastOp = <<"directoryAnswers">>
    /\ Len(ranking.result) = 2
    /\ ranking.result[1].workPriority = 26
    /\ ranking.result[1].distance < TwoKm
    /\ ranking.result[2].workPriority = 0
    /\ ranking.result[2].distance > TenKm

\* The device registered under id
DeviceOf(id) == devices[CHOOSE i \in DOMAIN devices : devices[i].id = id]

\* The facilities among the first three ranked that lie within 2 km of a or of b
NearEither(a, b) ==
    {f \in DOMAIN hospitals :
        /\ f <= 3
        /\ \/ haversine(DeviceOf(a).position[1], DeviceOf(a).position[2],
                        hospitals[f].position[1], hospitals[f].position[2]) < TwoKm
           \/ haversine(DeviceOf(b).position[1], DeviceOf(b).position[2],
                        hospitals[f].position[1], hospitals[f].position[2]) < TwoKm}

\* C29: after a rebuild in work-optimal mode every pair of online positioned devices that
\* is connected has workScore = 100 - 10 * distance + 20 * k, k being the number of
\* facilities among the first three ranked within 2 km of at least one endpoint (one
\* within 2 km of both counts once, one ranked fourth or lower never counts); while all
\* pairs fit the list, every pair is connected.
C29_WorkScore ==
    (Rebuilt /\ networkTopology = "work-optimal") =>
        /\ \A c \in DOMAIN connections :
               LET a == DeviceOf(connections[c].from)
                   b == DeviceOf(connections[c].to)
                   distance == haversine(a.position[1], a.position[2],
                                         b.position[1], b.position[2])
               IN  /\ connections[c].distance = distance
                   /\ connections[c].workScore =
                          ScoreBase - 10 * distance
                          + HospitalBonus * Cardinality(NearEither(a.id, b.id))
        /\ LET live == LiveIds(devices)
               n == Cardinality(live)
           IN  (n * (n - 1)) \div 2 <= 2 * n =>
                   \A a \in live : \A b \in live \ {a} :
                       \E c \in DOMAIN connections :
                           {connections[c].from, connections[c].to} = {a, b}

\* A work-optimal rebuild made by removeDevice left a connection whose two endpoints are
\* both within 2 km of the first ranked facility, while the fourth ranked facility is
\* within 2 km of an endpoint: the score holds three bonuses, not more
C29_Witness ==
    /\ Rebuilt
    /\ networkTopology = "work-optimal"
    /\ lastOp[1] = "removeDevice"
    /\ Len(hospitals) = 4
    /\ \E c \in DOMAIN connections :
           LET a == DeviceOf(connections[c].from)
               b == DeviceOf(connections[c].to)
           IN  /\ DistanceTo(a, hospitals[1].position) < TwoKm
               /\ DistanceTo(b, hospitals[1].position) < TwoKm
               /\ DistanceTo(a, hospitals[4].position) < TwoKm
               /\ connections[c].workScore = ScoreBase - 10 * connections[c].distance
                                             + 3 * HospitalBonus

\* The run of updateHospitals that the step completes
Completing == runs[CHOOSE i \in DOMAIN runs : runs[i].n = lastOp'[2]]

\* C23: when a run of updateHospitals that obtained a non-empty ranking has its routes,
\* hospitalRoutes holds exactly one entry for each facility the run asked routes for and
\* no other, in non-increasing order of the urgency score; those facilities are the first
\* min(5, n) of the n the run's ranking holds (newest.hospitals when the run is the latest
\* started, which a run that no other overlaps is).
C23_RoutesOfTopFive ==
    [][lastOp'[1] = "routesSettle" =>
         LET run == Completing
         IN  /\ Len(hospitalRoutes') = Len(run.topHospitals)
             /\ \A k \in DOMAIN run.topHospitals :
                    Cardinality({j \in DOMAIN hospitalRoutes' :
                                    hospitalRoutes'[j].id = run.topHospitals[k].id}) = 1
             /\ \A j \in 1..(Len(hospitalRoutes') - 1) :
                    UrgencyScore(hospitalRoutes'[j]) >= UrgencyScore(hospitalRoutes'[j + 1])
             /\ started = run.n =>
                    /\ newest.n = run.n
                    /\ Len(newest.hospitals) > 0
                    /\ run.topHospitals = Slice(newest.hospitals, 5)
                    /\ Len(hospitalRoutes') = Min(5, Len(newest.hospitals))
             /\ (started = run.n /\ run.n = 1) => hospitals = newest.hospitals]_vars

\* A run that was alone got routes for five of six ranked facilities, and the order by
\* urgency is not the order of the ranking
C23_Witness ==
    /\ lastOp[1] = "routesSettle"
    /\ runs = <<>>
    /\ started = 1
    /\ Len(hospitals) = 6
    /\ Len(hospitalRoutes) = 5
    /\ \E k \in 1..5 : hospitalRoutes[k].id # hospitals[k].id

\* The ids of the facilities in a list
FacilityIds(list) == {list[i].id : i \in DOMAIN list}

\* C30: in every snapshot delivered to a subscriber, each entry of hospitalRoutes, the
\* emergency route and the shortest route carry the id of a facility in the snapshot's
\* hospitals list; no route computed for an earlier facility list is published next to
\* a new list, also when a refresh found no facility or refreshes overlapped.
C30_RoutesMatchHospitals ==
    (published # <<>> /\ notified # {}) =>
        LET data == published[1]
        IN  /\ FacilityIds(data.hospitalRoutes) \subseteq FacilityIds(data.hospitals)
            /\ FacilityIds(data.emergencyRoute) \subseteq FacilityIds(data.hospitals)
            /\ FacilityIds(data.shortestRoute) \subseteq FacilityIds(data.hospitals)

\* C27: the set of registered ids changes only in registerDevice, which adds its id (or
\* replaces the device under it), and in removeDevice, which deletes its id; no other
\* step adds or deletes a device, and after the staleness sweep every stale device is
\* still registered, with isOnline false.
C27_RegistryChangesExplicitly ==
    [][/\ lastOp'[1] = "registerDevice" => Ids(devices') = Ids(devices) \cup {lastOp'[2]}
       /\ lastOp'[1] = "removeDevice" => Ids(devices') = Ids(devices) \ {lastOp'[2]}
       /\ lastOp'[1] \notin {"registerDevice", "removeDevice"} =>
              Ids(devices') = Ids(devices)
       /\ lastOp'[1] = "markOfflineIfStale" =>
              \A i \in DOMAIN devices :
                  Stale(devices[i], now) =>
                      \E j \in DOMAIN devices' :
                          /\ devices'[j].id = devices[i].id
                          /\ ~devices'[j].isOnline]_vars

\* The sweep has just run and published, and a device that is stale is registered and
\* offline
C27_Witness ==
    /\ lastOp = <<"markOfflineIfStale">>
    /\ published # <<>>
    /\ \E i \in DOMAIN devices : Stale(devices[i], now) /\ ~devices[i].isOnline

\* updateDeviceLocation(id, p), the k-th call that started a refresh, has just run its
\* synchronous part for a registered device
Located(id, p, k) ==
    /\ lastOp = <<"updateDeviceLocation", id>>
    /\ started = k
    /\ Has(devices, id)
    /\ DeviceOf(id).position = p

\* A subscriber has just received a snapshot in which device id is online at p and the
\* connections and roles are those a rebuild yields from the snapshot's devices
Shown(id, p) ==
    /\ published # <<>>
    /\ notified # {}
    /\ LET data == published[1]
           rebuilt == updateNetworkTopology(data.devices, data.hospitals, data.topology)
       IN  /\ \E i \in DOMAIN data.devices :
                  /\ data.devices[i].id = id
                  /\ data.devices[i].position = p
                  /\ data.devices[i].isOnline
           /\ data.connections = rebuilt.connections
           /\ data.devices = rebuilt.devices

Invocations(callback) == IF callback \in notified THEN Len(published) ELSE 0

\* C25: each publication invokes every callback that is subscribed at that moment
\* exactly once and no other callback, all with the one snapshot built for the
\* publication; a callback removed by its unsubscribe function (and not added again) is
\* not invoked any more, also not by a delayed notify that was pending when it was removed
C25_SubscribersOnceCancelledNever ==
    /\ Len(published) <= 1
    /\ published # <<>> => \A callback \in subscribers : Invocations(callback) = 1
    /\ \A callback \in Listeners \ subscribers : Invocations(callback) = 0
    /\ \A c \in cancelled : c[1] \notin subscribers /\ Invocations(c[1]) = 0

\* C25 witness: the delayed notify fires after callback 1 was removed while it was
\* pending, and invokes callback 2 only
C25_Witness == lastOp = <<"timerFires">> /\ timers = 0 /\ started = 1 /\ cancelled = {<<1, 1>>} /\ notified = {2} /\ Len(published) = 1

\* What the claim lists of a snapshot: of every device its position, isOnline, workRole
\* and emergencyResponder, the connections and the emergency flag
View(snapshot) ==
    [devices       |-> [k \in DOMAIN snapshot.devices |->
                           [id                 |-> snapshot.devices[k].id,
                            position           |-> snapshot.devices[k].position,
                            isOnline           |-> snapshot.devices[k].isOnline,
                            workRole           |-> snapshot.devices[k].workRole,
                            emergencyResponder |-> snapshot.devices[k].emergencyResponder]],
     connections   |-> snapshot.connections,
     emergencyMode |-> snapshot.workContext.emergencyMode]

\* C26: the snapshot a subscriber was handed reads, after every later operation, as it
\* read when it was delivered: its devices' position, isOnline, workRole and
\* emergencyResponder, its connections and its emergency flag
C26_DeliveredSnapshotFrozen == held # <<>> => View(held.seen) = View(held.delivered)

\* C31: at every moment at most one device of the registry, online or offline, has
\* emergencyResponder = TRUE
C31_AtMostOneResponder ==
    Cardinality({i \in DOMAIN devices : devices[i].emergencyResponder}) <= 1

\* The number of ends that the connections `edges` of conns have at the device id
Degree(conns, edges, id) ==
    Cardinality({k \in edges : conns[k].from = id})
        + Cardinality({k \in edges : conns[k].to = id})

\* No cycle: every non-empty set of the connections has a device at which exactly one
\* of them ends
Acyclic(conns) ==
    \A edges \in SUBSET DOMAIN conns :
        edges # {} =>
            \E k \in edges : \/ Degree(conns, edges, conns[k].from) = 1
                             \/ Degree(conns, edges, conns[k].to) = 1

\* The devices reached from `reached` over the connections, by at most `rounds` hops
RECURSIVE ReachedFrom(_, _, _)
ReachedFrom(conns, reached, rounds) ==
    IF rounds = 0 THEN reached
    ELSE ReachedFrom(conns,
                     reached \cup {conns[k].to : k \in {j \in DOMAIN conns : conns[j].from \in reached}}
                             \cup {conns[k].from : k \in {j \in DOMAIN conns : conns[j].to \in reached}},
                     rounds - 1)

\* C32: after a rebuild in mst mode over n >= 2 online positioned devices the
\* connections contain no cycle and every online positioned device is an endpoint of at
\* least one connection
C32_MstForestCoversDevices ==
    (Rebuilt /\ networkTopology = "mst" /\ Cardinality(LiveIds(devices)) >= 2) =>
        /\ Acyclic(connections)
        /\ \A id \in LiveIds(devices) :
               \E k \in DOMAIN connections : connections[k].from = id \/ connections[k].to = id

\* C32 witness: removeDevice has rebuilt, in mst mode over the four or more online
\* positioned devices left, connections that cover them all and do not connect them all
C32_Witness ==
    /\ lastOp[1] = "removeDevice"
    /\ networkTopology = "mst"
    /\ Cardinality(LiveIds(devices)) >= 4
    /\ \A id \in LiveIds(devices) : Degree(connections, DOMAIN connections, id) >= 1
    /\ ReachedFrom(connections, {connections[1].from}, Len(connections)) # LiveIds(devices)

\* r has the smallest roadDistance of the entries of routes
Shortest(r, routes) == \A k \in DOMAIN routes : r.roadDistance <= routes[k].roadDistance

\* C33: in every published snapshot the shortestRoute, and the first entry of
\* hospitalRoutes, has the smallest roadDistance of all entries of hospitalRoutes
C33_FirstRouteIsShortest ==
    \A s \in DOMAIN published :
        /\ published[s].shortestRoute # <<>> =>
               Shortest(published[s].shortestRoute[1], published[s].hospitalRoutes)
        /\ published[s].hospitalRoutes # <<>> =>
               Shortest(published[s].hospitalRoutes[1], published[s].hospitalRoutes)

\* The call number k of updateDeviceLocation has just located device id, which was
\* offline (a call for an id that is not registered starts nothing and has no number)
Revived(id, k) ==
    /\ lastOp = <<"updateDeviceLocation", id>>
    /\ Has(devices, id)
    /\ started = k
    /\ <<k, id>> \in revived

\* The continuation of call number k has just rebuilt the topology (App.jsx:404) with
\* device id among the online positioned devices
RebuiltWith(id, k) ==
    /\ Rebuilt
    /\ lastOp[1] \in {"directoryResponds", "routesSettle"}
    /\ lastOp[2] = k
    /\ Has(devices, id)
    /\ Eligible(Get(devices, id))

\* As the claim states it: a device the sweep marked offline is online when its next
\* updateDeviceLocation has written it, and is an online positioned device in the
\* rebuild at the end of that call
C34_RevivedInNextRebuild ==
    /\ [](\A id \in DeviceIds : \A k \in 1..MaxUpdates :
             Revived(id, k) => Eligible(Get(devices, id)))
    /\ \A id \in DeviceIds : \A k \in 1..MaxUpdates :
           Revived(id, k) ~> RebuiltWith(id, k)

\* C34: a device the sweep marked offline is online, without being registered again,
\* when its next updateDeviceLocation has written it, and is an online positioned
\* device in the rebuild at the end of that call, unless before that rebuild the device
\* is removed, registered again or marked offline again by the sweep
C34_RevivedInNextRebuildUnlessDropped ==
    /\ [](\A id \in DeviceIds : \A k \in 1..MaxUpdates :
             Revived(id, k) => Eligible(Get(devices, id)))
    /\ \A id \in DeviceIds : \A k \in 1..MaxUpdates :
           Revived(id, k) ~>
               \/ RebuiltWith(id, k)
               \/ lastOp[1] = "removeDevice" /\ lastOp[2] = id
               \/ lastOp = <<"registerDevice", id>>
               \/ /\ lastOp = <<"markOfflineIfStale">>
                  /\ Has(devices, id)
                  /\ ~Get(devices, id).isOnline

\* C34 witness: the sweep had marked both devices offline, both reported again, and the
\* rebuild at the end of the second report connects them
C34_Witness ==
    /\ RebuiltWith(1, started)
    /\ revived = {<<1, 2>>, <<2, 1>>}
    /\ Len(connections) = 1
    /\ \A i \in DOMAIN devices : Eligible(devices[i])

\* The connections of a rebuild in emergency mode: none with fewer than two online
\* positioned devices, else those createEmergencyTopology builds over them
EmergencyRebuild(devs, hosp) ==
    IF Len(SelectSeq(devs, Eligible)) < 2
    THEN <<>>
    ELSE createEmergencyTopology(SelectSeq(devs, Eligible), hosp)

\* What setEmergencyMode(true) leaves: the flag set, the mode "emergency" and the
\* connections of an emergency rebuild
EnabledEmergency ==
    /\ emergencyMode'
    /\ networkTopology' = "emergency"
    /\ connections' = EmergencyRebuild(devices, hospitals)

\* As the claim states it: setEmergencyMode(true) leaves the mode "emergency" and the
\* connections of an emergency rebuild; setEmergencyMode(false) changes the emergency
\* flag and nothing else of the service
C35_DisableChangesFlagOnly ==
    [][lastOp'[1] = "setEmergencyMode" =>
         IF lastOp'[2]
         THEN EnabledEmergency
         ELSE /\ ~emergencyMode'
              /\ UNCHANGED <<networkTopology, devices, connections, hospitals,
                             hospitalRoutes, autoSelectShortestRoute, subscribers>>]_vars

\* C35: setEmergencyMode(true) leaves the mode "emergency" and the connections of an
\* emergency rebuild; setEmergencyMode(false) clears the emergency flag, leaves the
\* topology mode as it was, whatever the mode before the emergency mode was enabled, and
\* rebuilds the connections and the roles in that mode; it changes nothing else
C35_DisableKeepsModeAndRebuilds ==
    [][lastOp'[1] = "setEmergencyMode" =>
         IF lastOp'[2]
         THEN EnabledEmergency
         ELSE /\ ~emergencyMode'
              /\ UNCHANGED <<networkTopology, hospitals, hospitalRoutes,
                             autoSelectShortestRoute, subscribers>>
              /\ connections' =
                     updateNetworkTopology(devices, hospitals, networkTopology).connections
              /\ devices' = updateNetworkTopology(devices, hospitals, networkTopology).devices
              /\ DOMAIN devices' = DOMAIN devices
              /\ \A i \in DOMAIN devices :
                     /\ devices'[i].id = devices[i].id
                     /\ devices'[i].position = devices[i].position
                     /\ devices'[i].isOnline = devices[i].isOnline]_vars

\* C35 witness: setEmergencyMode(false) has left the mode "emergency" and an emergency
\* star between the devices
C35_Witness ==
    /\ lastOp = <<"setEmergencyMode", FALSE>>
    /\ ~emergencyMode
    /\ networkTopology = "emergency"
    /\ Len(connections) = 1
    /\ IsEmergencyPath(connections[1])

====
